---- MODULE Spec2Model ----
(***************************************************************************)
(* CorreX: the trigger-driven correction orchestrator                      *)
(* (correX/autocorrect_service.py, AutoCorrectService) together with the   *)
(* per-window keystroke buffer (correX/keystroke_buffer.py) and the        *)
(* outcome of the text bridge (correX/text_buffer.py).                     *)
(*                                                                         *)
(* Text is a sequence of one-character strings.  A step of the model is    *)
(* one of: the key-down callback (it runs to completion on the listener    *)
(* thread), one lock section or one lock-free stretch between two blocking *)
(* calls of a thread the callback spawned, and one stretch of the worker   *)
(* pool's done-callback.                                                   *)
(***************************************************************************)
EXTENDS Integers, Sequences, FiniteSets, Bags, TLC

\* ------------------------------------------------------------- bounds
MaxLen == 2           \* a character key is typed while the control holds less
MaxSubmit == 2        \* correction-trigger presses that may reach the pool
MaxThreads == 1

\* -------------------------------------------------- program constants
MAX_TEXT_LENGTH == 10000     \* _trigger_correction: len(full_text) > 10000
max_buffer_size == 10000     \* KeystrokeBuffer.__init__(max_buffer_size)
max_windows == 10            \* KeystrokeBuffer._max_windows
max_workers == 2             \* ThreadPoolExecutor(max_workers=2)

\* --------------------------------------------------------------- text
Whitespace == {" ", "\n", "\t"}

RECURSIVE lstrip(_)
lstrip(s) == IF s # <<>> /\ Head(s) \in Whitespace THEN lstrip(Tail(s)) ELSE s

RECURSIVE rstrip(_)
rstrip(s) ==
    IF s # <<>> /\ s[Len(s)] \in Whitespace
    THEN rstrip(SubSeq(s, 1, Len(s) - 1))
    ELSE s

strip(s) == rstrip(lstrip(s))

startswith(s, p) == Len(p) <= Len(s) /\ SubSeq(s, 1, Len(p)) = p

SetMax(S) == CHOOSE x \in S : \A y \in S : y <= x

\* str.rfind: the 0-based start of the last occurrence of sub in s, or -1
rfind(s, sub) ==
    LET at == {i \in 0..(Len(s) - Len(sub)) : SubSeq(s, i + 1, i + Len(sub)) = sub}
    IN  IF at = {} THEN -1 ELSE SetMax(at)

\* s[a:b] of Python for 0 <= a, 0 <= b
slice(s, a, b) ==
    LET hi == IF b > Len(s) THEN Len(s) ELSE b
    IN  IF a >= hi THEN <<>> ELSE SubSeq(s, a + 1, hi)

\* ------------------------------------------------- KeystrokeBuffer
\* kb = [buffers, current_window, last_focus_check, last_cleanup,
\* max_buffer_size]:
\* buffers is the dict _buffers in insertion order, a sequence of
\* [hwnd, text]; current_window 0 is None; the two time stamps are 0 (never)
\* or 1 (set).  tick = [focus, cleanup] says whether the focus-check and the
\* cleanup interval have elapsed at the moment of the call.
None == 0

ignore_keys ==
    {"shift", "ctrl", "alt", "win", "left shift", "right shift", "left ctrl",
     "right ctrl", "left alt", "right alt", "left windows", "right windows",
     "caps lock", "num lock", "scroll lock", "pause", "print screen", "insert",
     "f1", "f2", "f3", "f4", "f5", "f6", "f7", "f8", "f9", "f10", "f11", "f12",
     "up", "down", "left", "right", "page up", "page down", "home", "end",
     "esc", "delete"}

\* the key names of more than one character the model's events use
LongKeyNames == ignore_keys \cup {"space", "enter", "tab", "backspace", "f13", "decimal"}

key_mapping(name) ==
    CASE name = "space" -> " "
      [] name = "enter" -> "\n"
      [] name = "tab" -> "\t"
      [] OTHER -> ""

\* KeystrokeBuffer(max_buffer_size), the fields after construction
KeystrokeBuffer(cap) ==
    [buffers |-> <<>>, current_window |-> None,
     last_focus_check |-> 0, last_cleanup |-> 0, max_buffer_size |-> cap]

Ticks == [focus : BOOLEAN, cleanup : BOOLEAN]

\* one tick for each outcome update_current_window can have in kb for fg
TicksFor(kb, fg) ==
    IF fg = kb.current_window \/ kb.last_focus_check = 0
    THEN {[focus |-> TRUE, cleanup |-> TRUE]}
    ELSE IF kb.last_cleanup = 0 THEN {t \in Ticks : t.cleanup}
    ELSE Ticks

buf_has(buffers, w) == \E i \in 1..Len(buffers) : buffers[i].hwnd = w

buf_get(buffers, w) ==
    IF buf_has(buffers, w)
    THEN buffers[CHOOSE i \in 1..Len(buffers) : buffers[i].hwnd = w].text
    ELSE <<>>

buf_put(buffers, w, t) ==
    IF buf_has(buffers, w)
    THEN [i \in 1..Len(buffers) |->
            IF buffers[i].hwnd = w THEN [hwnd |-> w, text |-> t] ELSE buffers[i]]
    ELSE Append(buffers, [hwnd |-> w, text |-> t])

cleanup_old_buffers(kb, maxw) ==
    IF Len(kb.buffers) <= maxw THEN kb
    ELSE
      LET cur == kb.current_window
          isOther(e) == e.hwnd # cur
          other == SelectSeq(kb.buffers, isOther)
          n == maxw - 1
          \* other_windows[-(max_windows-1):]
          recent == IF n = 0 \/ n >= Len(other) THEN other
                    ELSE SubSeq(other, Len(other) - n + 1, Len(other))
          first == IF cur # None /\ buf_has(kb.buffers, cur)
                   THEN <<[hwnd |-> cur, text |-> buf_get(kb.buffers, cur)]>>
                   ELSE <<>>
      IN  [kb EXCEPT !.buffers = first \o recent]

update_current_window(kb, fg, tick) ==
    IF kb.last_focus_check # 0 /\ ~tick.focus THEN kb
    ELSE
      LET k1 == [kb EXCEPT !.last_focus_check = 1] IN
      IF fg # kb.current_window
      THEN LET k2 == [k1 EXCEPT !.current_window = fg] IN
           IF kb.last_cleanup = 0 \/ tick.cleanup
           THEN cleanup_old_buffers([k2 EXCEPT !.last_cleanup = 1], max_windows)
           ELSE k2
      ELSE k1

trim_to_cap(buffer, cap) ==
    IF Len(buffer) > cap
    THEN SubSeq(buffer, Len(buffer) - cap + 1, Len(buffer))
    ELSE buffer

\* on_key_press appending the key's name whatever the key is
on_key_press_verbatim(kb, fg, tick, key_name, is_backspace) ==
    LET k1 == update_current_window(kb, fg, tick)
        w == k1.current_window
    IN  IF w = None THEN k1
        ELSE [k1 EXCEPT !.buffers =
                buf_put(k1.buffers, w,
                        trim_to_cap(Append(buf_get(k1.buffers, w), key_name),
                                    kb.max_buffer_size))]

on_key_press(kb, fg, tick, key_name, is_backspace) ==
    LET k1 == update_current_window(kb, fg, tick)
        w == k1.current_window
        bufs == IF buf_has(k1.buffers, w) THEN k1.buffers ELSE buf_put(k1.buffers, w, <<>>)
        buffer == buf_get(bufs, w)
    IN  IF w = None THEN k1
        ELSE IF is_backspace \/ key_name = "backspace"
        THEN IF Len(buffer) > 0
             THEN [k1 EXCEPT !.buffers = buf_put(bufs, w, SubSeq(buffer, 1, Len(buffer) - 1))]
             ELSE [k1 EXCEPT !.buffers = bufs]
        ELSE IF key_name \in ignore_keys THEN [k1 EXCEPT !.buffers = bufs]
        ELSE IF key_mapping(key_name) # ""
        THEN [k1 EXCEPT !.buffers = buf_put(bufs, w, trim_to_cap(Append(buffer, key_mapping(key_name)),
                                                       kb.max_buffer_size))]
        ELSE IF key_name \notin LongKeyNames
        THEN [k1 EXCEPT !.buffers = buf_put(bufs, w, trim_to_cap(Append(buffer, key_name),
                                                       kb.max_buffer_size))]
        ELSE [k1 EXCEPT !.buffers = bufs]

\* get_buffer() returns this text; the call also refreshes the focus, which
\* the caller applies with update_current_window
get_buffer(kb, fg, tick) ==
    LET k1 == update_current_window(kb, fg, tick)
    IN  IF k1.current_window = None THEN <<>> ELSE buf_get(k1.buffers, k1.current_window)

set_buffer(kb, fg, tick, text) ==
    LET k1 == update_current_window(kb, fg, tick)
    IN  IF k1.current_window = None THEN k1
        ELSE [k1 EXCEPT !.buffers = buf_put(k1.buffers, k1.current_window, text)]

clear_buffer(kb, fg, tick) ==
    LET k1 == update_current_window(kb, fg, tick)
    IN  IF k1.current_window = None THEN k1
        ELSE IF buf_has(k1.buffers, k1.current_window)
        THEN [k1 EXCEPT !.buffers = buf_put(k1.buffers, k1.current_window, <<>>)]
        ELSE k1

\* add_text(text, window_handle); window_handle None is the current window
add_text(kb, fg, tick, text, window_handle) ==
    LET k1 == IF window_handle = None THEN update_current_window(kb, fg, tick) ELSE kb
        w == IF window_handle = None THEN k1.current_window ELSE window_handle
    IN  IF w = None THEN k1
        ELSE [k1 EXCEPT !.buffers =
                buf_put(k1.buffers, w,
                        trim_to_cap(buf_get(k1.buffers, w) \o text, kb.max_buffer_size))]

\* ------------------------------------------------ AutoCorrectService
\* A trigger is its canonical string split on '+': <<"ctrl", "space">>.
\* A key-down event is [name, held]: the key and the modifiers held.
\* svc is the service object (history_manager and _gui_callbacks are None,
\* their defaults; _last_input_snapshot, _last_control, _last_region_snapshot
\* and _last_requested_region, which are then written and never read, are
\* left out); kb its KeystrokeBuffer; control the text of the
\* foreground window's focused control; threads the threads the callback
\* spawned; tasks the worker pool's queue of cleanup_paragraph tasks, each
\* running until its done-callback returns.
\* submitted counts the calls of executor.submit; clear_handled is a history
\* variable: a clear-buffer trigger has been handled and no correction
\* trigger has been pressed or handled since.
VARIABLES svc, kb, control, foreground, threads, tasks, submitted, clear_handled,
          clipboard, title, call

vars == <<svc, kb, control, foreground, threads, tasks, submitted, clear_handled,
          clipboard, title, call>>

modifier_keys ==
    {"shift", "ctrl", "alt", "left ctrl", "right ctrl", "left shift",
     "right shift", "left alt", "right alt", "win", "left windows",
     "right windows", "caps lock", "num lock", "scroll lock", "pause",
     "print screen"}

is_trigger_pressed(e, trigger) ==
    IF trigger = <<>> THEN FALSE
    ELSE LET key == trigger[Len(trigger)]
             modifiers == {trigger[i] : i \in 1..(Len(trigger) - 1)}
         IN  e.name = key /\ modifiers \subseteq e.held

\* _get_delta without the cut at the baseline: the whole text is the delta
get_delta_whole(baseline, full_text) ==
    [delta |-> full_text, baseline |-> baseline]

\* _get_delta: [delta, baseline], the text returned and _baseline_text after
get_delta(baseline, full_text) ==
    IF baseline = <<>> THEN [delta |-> full_text, baseline |-> baseline]
    ELSE IF startswith(full_text, baseline)
    THEN [delta |-> slice(full_text, Len(baseline), Len(full_text)), baseline |-> baseline]
    ELSE [delta |-> full_text, baseline |-> <<>>]

\* _trigger_correction, lines 658-700, on the text it captured
build_request(s, buffer_text) ==
    LET acc == s.accepted_text_accumulator
        full_text == IF acc # <<>>
                     THEN IF startswith(buffer_text, acc) THEN buffer_text
                          ELSE acc \o buffer_text
                     ELSE buffer_text
        d == get_delta(s.baseline_text, full_text)
        region == d.delta
        found == IF region # <<>> THEN rfind(full_text, region) ELSE Len(full_text)
        prefix_len == IF found = -1
                      THEN (IF Len(full_text) - Len(region) > 0
                            THEN Len(full_text) - Len(region) ELSE 0)
                      ELSE found
        reach == prefix_len + Len(region)
        suffix_start == IF reach < Len(full_text) THEN reach ELSE Len(full_text)
    IN  [full_text |-> full_text,
         too_long |-> Len(full_text) > MAX_TEXT_LENGTH,
         baseline |-> d.baseline,
         region |-> region,
         payload |-> strip(region),
         prefix |-> slice(full_text, 0, prefix_len),
         suffix |-> slice(full_text, suffix_start, Len(full_text))]

\* _prepare_candidate_preview: new_text
prepare_candidate_preview(s, candidate) ==
    LET region_original == s.current_region_original
        leading_len == Len(region_original) - Len(lstrip(region_original))
        trailing_len == Len(region_original) - Len(rstrip(region_original))
        leading_ws == slice(region_original, 0, leading_len)
        trailing_ws == IF trailing_len > 0
                       THEN slice(region_original, Len(region_original) - trailing_len,
                                  Len(region_original))
                       ELSE <<>>
    IN  s.current_prefix \o leading_ws \o candidate \o trailing_ws \o s.current_suffix

RECURSIVE unique_candidates(_, _)
unique_candidates(candidates, kept) ==
    IF candidates = <<>> THEN kept
    ELSE LET c == strip(Head(candidates)) IN
         IF c # <<>> /\ ~(\E i \in 1..Len(kept) : kept[i] = c)
         THEN unique_candidates(Tail(candidates), Append(kept, c))
         ELSE unique_candidates(Tail(candidates), kept)

\* HistoryManager.add_correction with its try/except removed: a failing
\* database raises into the caller
add_correction_raising(hm, original, corrected, selected_version, total_versions) ==
    IF hm.db_ok
    THEN [hm |-> [hm EXCEPT !.corrections =
                     Append(hm.corrections,
                            [original |-> original, corrected |-> corrected,
                             selected_version |-> selected_version,
                             total_versions |-> total_versions])],
          ok |-> TRUE, raised |-> FALSE]
    ELSE [hm |-> [hm EXCEPT !.errors = hm.errors + 1], ok |-> FALSE, raised |-> TRUE]

\* HistoryManager.add_correction: [hm, ok, raised]. hm is the collaborator,
\* [corrections, errors, db_ok]: the rows of its table, the failures it
\* logged, and whether the database can be written; a failing database
\* raises inside the try and the except clause returns False
add_correction(hm, original, corrected, selected_version, total_versions) ==
    IF hm.db_ok
    THEN [hm |-> [hm EXCEPT !.corrections =
                     Append(hm.corrections,
                            [original |-> original, corrected |-> corrected,
                             selected_version |-> selected_version,
                             total_versions |-> total_versions])],
          ok |-> TRUE, raised |-> FALSE]
    ELSE [hm |-> [hm EXCEPT !.errors = hm.errors + 1], ok |-> FALSE, raised |-> FALSE]

\* a or b, of two texts
or(a, b) == IF a # <<>> THEN a ELSE b

\* _accept_candidate: [svc, cleared, raised]; cleared says that
\* _keystroke_buffer.clear_buffer() is called, raised that the indexing of
\* the first lock section raises IndexError out of the method
accept_candidate(s) ==
    IF ~s.in_selection_mode THEN [svc |-> s, cleared |-> FALSE, raised |-> FALSE]
    ELSE IF s.current_candidates = <<>>
    THEN [svc |-> [s EXCEPT !.in_selection_mode = FALSE], cleared |-> FALSE, raised |-> FALSE]
    ELSE IF s.current_candidate_index >= Len(s.current_candidates)
    THEN [svc |-> s, cleared |-> FALSE, raised |-> TRUE]
    ELSE
      LET candidate == s.current_candidates[s.current_candidate_index + 1]
          candidate_num == s.current_candidate_index + 1
          final_text == IF s.last_preview_text # <<>> THEN s.last_preview_text
                        ELSE prepare_candidate_preview(s, candidate)
          original_segment == or(s.current_region_original,
                                 or(s.last_region_snapshot,
                                    or(s.last_requested_region, candidate)))
          saved == add_correction(s.history_manager[1], strip(original_segment),
                                  candidate, candidate_num, Len(s.current_candidates))
          s1 == IF s.history_manager = <<>> THEN s
                ELSE [s EXCEPT !.history_manager = <<saved.hm>>]
      IN  IF s.history_manager # <<>> /\ saved.raised
          THEN [svc |-> [s1 EXCEPT !.in_selection_mode = FALSE,
                                   !.current_candidates = <<>>,
                                   !.current_candidate_index = 0,
                                   !.current_prefix = <<>>,
                                   !.current_suffix = <<>>,
                                   !.current_region_original = <<>>,
                                   !.last_region_snapshot = <<>>,
                                   !.last_requested_region = <<>>,
                                   !.last_preview_text = <<>>],
                cleared |-> FALSE, raised |-> FALSE]
          ELSE [svc |-> [s1 EXCEPT !.baseline_text = final_text,
                                   !.accepted_text_accumulator = final_text,
                                   !.last_region_snapshot = <<>>,
                                   !.last_requested_region = <<>>,
                                   !.last_preview_text = <<>>,
                                   !.current_prefix = <<>>,
                                   !.current_suffix = <<>>,
                                   !.current_region_original = <<>>,
                                   !.in_selection_mode = FALSE,
                                   !.current_candidates = <<>>,
                                   !.current_candidate_index = 0],
                cleared |-> TRUE, raised |-> FALSE]

\* clear_saved_paragraphs, the fields of the service
clear_saved_paragraphs(s) ==
    [s EXCEPT !.accepted_text_accumulator = <<>>,
              !.baseline_text = <<>>,
              !.last_region_snapshot = <<>>,
              !.last_requested_region = <<>>,
              !.last_preview_text = <<>>,
              !.current_prefix = <<>>,
              !.current_suffix = <<>>,
              !.current_region_original = <<>>,
              !.pending_correction = FALSE,
              !.in_selection_mode = FALSE,
              !.current_candidates = <<>>,
              !.current_candidate_index = 0]

\* the reset every "nothing to show" branch of _store_and_show_candidates makes
reset_after_failed_request(s) ==
    [s EXCEPT !.pending_correction = FALSE,
              !.in_selection_mode = FALSE,
              !.current_prefix = <<>>,
              !.current_suffix = <<>>,
              !.current_region_original = <<>>,
              !.last_region_snapshot = <<>>,
              !.last_requested_region = <<>>,
              !.last_preview_text = <<>>]

\* _navigate_candidates without the modulo: the index runs off the list
navigate_candidates_unwrapped(s, direction) ==
    IF ~s.in_selection_mode \/ s.current_candidates = <<>>
    THEN [svc |-> s, show |-> FALSE]
    ELSE [svc |-> [s EXCEPT !.current_candidate_index =
                      s.current_candidate_index + direction],
          show |-> TRUE]

\* _navigate_candidates, its lock section: [svc, show]
navigate_candidates(s, direction) ==
    IF ~s.in_selection_mode \/ s.current_candidates = <<>>
    THEN [svc |-> s, show |-> FALSE]
    ELSE [svc |-> [s EXCEPT !.current_candidate_index =
                      (s.current_candidate_index + direction) % Len(s.current_candidates)],
          show |-> TRUE]

\* ------------------------------------------------------------ threads
\* a thread is [kind, pc, dir, text, ok, accepted]: its target and position,
\* the direction of a navigation, the text and the outcome of a bridge call
\* it waits for, and whether the key press that started it accepted a
\* candidate first
Free == [kind |-> "free", pc |-> "", dir |-> 0, text |-> <<>>, ok |-> FALSE,
         accepted |-> FALSE]

NewThread(kind, pc, dir) == [Free EXCEPT !.kind = kind, !.pc = pc, !.dir = dir]

\* threads is the bag of the live threads' records
Finish(th) == threads (-) SetToBag({th})

Become(th, next) == (threads (-) SetToBag({th})) (+) SetToBag({next})

Live(kind) == {th \in BagToSet(threads) : th.kind = kind}

CountLive(kind) == BagCardinality([th \in Live(kind) |-> threads[th]])

\* the text of the control after the application received the key
app_key(text, e) ==
    IF e.held \cap {"ctrl", "alt"} # {} THEN text
    ELSE IF e.name = "backspace"
    THEN IF text = <<>> THEN text ELSE SubSeq(text, 1, Len(text) - 1)
    ELSE IF key_mapping(e.name) # "" THEN Append(text, key_mapping(e.name))
    ELSE IF e.name \notin LongKeyNames THEN Append(text, e.name)
    ELSE text

\* the dictation toggle run on the key-event thread instead of its own
on_key_event_toggle_inline(s, k, fg, tick, e, start_ok) ==
    [svc |-> [s EXCEPT !.is_listening = ~s.is_listening], kb |-> k, spawn |-> Free,
     suppressed |-> TRUE, raised |-> FALSE]

\* the hook swallowing every key: no key reaches the application
on_key_event_swallow(s, k, fg, tick, e, start_ok) ==
    [svc |-> s, kb |-> k, spawn |-> Free, suppressed |-> TRUE, raised |-> FALSE]

\* _on_key_event for a key-down event: [svc, kb, spawn, suppressed, raised].
\* spawn is the thread started (Free: none), suppressed whether
\* event.suppress_event() is called, raised whether the except clause ran;
\* start_ok is whether threading.Thread(...).start() succeeds.
on_key_event(s, k, fg, tick, e, start_ok) ==
    LET quiet == [svc |-> s, kb |-> k, spawn |-> Free, suppressed |-> FALSE, raised |-> FALSE]
        crash(s1, k1) == [svc |-> [s1 EXCEPT !.in_selection_mode = FALSE,
                                              !.pending_correction = FALSE],
                          kb |-> k1, spawn |-> Free, suppressed |-> FALSE, raised |-> TRUE]
        start(s1, k1, th) == IF start_ok
                             THEN [svc |-> s1, kb |-> k1, spawn |-> th,
                                   suppressed |-> TRUE, raised |-> FALSE]
                             ELSE crash(s1, k1)
        is_trigger == is_trigger_pressed(e, s.trigger_key)
        is_clear_trigger == s.clear_buffer_trigger_key # <<>>
                            /\ is_trigger_pressed(e, s.clear_buffer_trigger_key)
        is_dictation_trigger == s.dictation_trigger_key # <<>>
                                /\ is_trigger_pressed(e, s.dictation_trigger_key)
        ctrl == "ctrl" \in e.held
        is_ctrl_nav == e.name \in {"left", "right"} /\ ctrl
        is_ctrl_left == e.name = "left" /\ ctrl
        is_ctrl_right == e.name = "right" /\ ctrl
        acc == accept_candidate(s)
        kacc == IF acc.cleared THEN clear_buffer(k, fg, tick) ELSE k
    IN  IF ~s.running \/ s.suppress_events THEN quiet
        ELSE IF is_dictation_trigger THEN start(s, k, NewThread("dictation", "toggle", 0))
        ELSE IF is_clear_trigger THEN start(s, k, NewThread("clear", "clear", 0))
        ELSE IF ~s.in_selection_mode /\ ~is_trigger
        THEN IF is_ctrl_nav THEN quiet    \* reset_on_cursor_move changes nothing
             ELSE [quiet EXCEPT !.kb = on_key_press(k, fg, tick, e.name, e.name = "backspace")]
        ELSE IF s.in_selection_mode /\ (is_ctrl_left \/ is_ctrl_right)
        THEN start(s, k, NewThread("nav", "navigate", IF is_ctrl_right THEN 1 ELSE -1))
        ELSE IF s.in_selection_mode
        THEN IF is_trigger
             THEN IF acc.raised THEN crash(s, k)
                  ELSE start(acc.svc, kacc,
                             [NewThread("trigger", "check", 0) EXCEPT !.accepted = acc.cleared])
             ELSE IF e.name \notin modifier_keys
             THEN IF acc.raised THEN crash(s, k)
                  ELSE [quiet EXCEPT !.svc = acc.svc, !.kb = kacc]
             ELSE quiet
        ELSE IF is_trigger /\ s.paragraph_enabled
        THEN start(s, k, NewThread("trigger", "check", 0))
        ELSE quiet

\* the lock section of _trigger_correction without its test of
\* _pending_correction
trigger_check_unguarded(s) ==
    IF ~s.paragraph_enabled THEN [svc |-> s, proceed |-> FALSE]
    ELSE [svc |-> [s EXCEPT !.pending_correction = TRUE,
                            !.current_prefix = <<>>,
                            !.current_suffix = <<>>,
                            !.current_region_original = <<>>],
          proceed |-> TRUE]

\* _trigger_correction, its lock section: [svc, proceed]
trigger_check(s) ==
    IF ~s.paragraph_enabled THEN [svc |-> s, proceed |-> FALSE]
    ELSE IF s.pending_correction THEN [svc |-> s, proceed |-> FALSE]
    ELSE [svc |-> [s EXCEPT !.pending_correction = TRUE,
                            !.current_prefix = <<>>,
                            !.current_suffix = <<>>,
                            !.current_region_original = <<>>],
          proceed |-> TRUE]

\* _trigger_correction from the captured text on, lines 658-755:
\* [svc, submit, payload, full_text]
capture_request(s, buffer_text) ==
    LET request(r) ==
          LET s2 == [s EXCEPT !.baseline_text = r.baseline,
                              !.last_region_snapshot = r.region,
                              !.last_requested_region = r.payload]
              dropped == [s2 EXCEPT !.pending_correction = FALSE,
                                    !.current_prefix = <<>>,
                                    !.current_suffix = <<>>,
                                    !.current_region_original = <<>>]
              none(sv) == [svc |-> sv, submit |-> FALSE, payload |-> <<>>,
                           full_text |-> <<>>]
          IN  IF r.too_long THEN none([s EXCEPT !.pending_correction = FALSE])
              ELSE IF r.payload = <<>> THEN none(dropped)
              ELSE IF ~s.executor THEN none(dropped)
              ELSE [svc |-> [s2 EXCEPT !.current_region_original = r.region,
                                       !.current_prefix = r.prefix,
                                       !.current_suffix = r.suffix],
                    submit |-> TRUE, payload |-> r.payload, full_text |-> r.full_text]
    IN  \* the request is built once
        CHOOSE out \in {request(r) : r \in {build_request(s, buffer_text)}} : TRUE

\* _store_and_show_candidates up to the call of _show_candidate: [svc, show]
store_candidates(s, result) ==
    LET candidates == unique_candidates(result.list, <<>>) IN
    IF result.exc \/ result.list = <<>> \/ candidates = <<>>
    THEN [svc |-> reset_after_failed_request(s), show |-> FALSE]
    ELSE [svc |-> [s EXCEPT !.current_candidates = candidates,
                            !.current_candidate_index = 0,
                            !.in_selection_mode = TRUE,
                            !.pending_correction = FALSE],
          show |-> TRUE]

\* _show_candidate up to the call of set_active_text: [go, new_text]
show_candidate(s, index) ==
    IF s.current_candidates = <<>> \/ index >= Len(s.current_candidates)
    THEN [go |-> FALSE, new_text |-> <<>>]
    ELSE [go |-> TRUE,
          new_text |-> prepare_candidate_preview(s, s.current_candidates[index + 1])]

\* set_active_text by its outcome: the control's text after the call
set_active_text(text, old, success) == IF success THEN text ELSE old

\* _show_candidate from set_active_text's return on: [svc, kb]
shown_candidate(s, k, fg, tick, new_text, success) ==
    IF success
    THEN [svc |-> [s EXCEPT !.last_preview_text = new_text, !.suppress_events = FALSE],
          kb |-> set_buffer(k, fg, tick, new_text)]
    ELSE [svc |-> [s EXCEPT !.suppress_events = FALSE], kb |-> k]

\* -------------------------------------------------------------- state
X == <<"X">>
Y == <<"Y">>

\* what cleanup_paragraph may return for a payload
Results(payload) ==
    {[exc |-> TRUE, list |-> <<>>],
     [exc |-> FALSE, list |-> << <<" ">> \o X, X, <<" ">>, Y>>],
     [exc |-> FALSE, list |-> << <<" ">> >>]}

Events ==
    {[name |-> "a", held |-> {}],
     [name |-> "esc", held |-> {}],
     [name |-> "shift", held |-> {"shift"}],
     [name |-> "space", held |-> {"ctrl"}],
     [name |-> "delete", held |-> {"ctrl", "shift"}],
     [name |-> "left", held |-> {"ctrl"}],
     [name |-> "right", held |-> {"ctrl"}]}

InitialControls == {<<>>, <<" ", "b", " ">>}

\* ------------------------------------------------------------ triggers
\* a trigger string is the sequence of its parts between the "+" signs;
\* None and the empty string are <<>>
\* part.strip() of raw.strip().lower().split('+'), on the parts used here
strip_lower(part) ==
    CASE part = "Ctrl" -> "ctrl"
      [] part = " a " -> "a"
      [] part = " " -> ""
      [] OTHER -> part

\* a letter outside a..z, of which str.isalpha() holds, written by its name
OtherLetters == {"eacute"}

modifier_aliases ==
    [control |-> "ctrl", control_l |-> "ctrl", control_r |-> "ctrl",
     ctrl_l |-> "ctrl", ctrl_r |-> "ctrl", command |-> "ctrl", cmd |-> "ctrl",
     option |-> "alt", option_l |-> "alt", option_r |-> "alt", alt_l |-> "alt",
     alt_r |-> "alt", meta |-> "alt", meta_l |-> "alt", meta_r |-> "alt",
     shift_l |-> "shift", shift_r |-> "shift"]

\* the backslash, apostrophe and grave characters are written by their names
key_aliases ==
    [return |-> "enter", enter |-> "enter", escape |-> "esc", esc |-> "esc",
     space |-> "space", spacebar |-> "space", backspace |-> "backspace",
     delete |-> "delete", del |-> "delete", insert |-> "insert", ins |-> "insert",
     tab |-> "tab", caps_lock |-> "caps lock", capslock |-> "caps lock",
     page_up |-> "page up", pageup |-> "page up", prior |-> "page up",
     page_down |-> "page down", pagedown |-> "page down", next |-> "page down",
     home |-> "home", end |-> "end", up |-> "up", down |-> "down",
     left |-> "left", right |-> "right", minus |-> "-", equal |-> "=",
     comma |-> ",", period |-> ".", slash |-> "/", backslash |-> "backslash",
     bracketleft |-> "[", bracketright |-> "]", semicolon |-> ";",
     apostrophe |-> "apostrophe", grave |-> "grave", print |-> "print screen",
     print_screen |-> "print screen", scroll_lock |-> "scroll lock",
     scrolllock |-> "scroll lock", pause |-> "pause", break |-> "pause",
     num_lock |-> "num lock", numlock |-> "num lock"]

\* d.get(key, key)
get_or_self(d, key) == IF key \in DOMAIN d THEN d[key] ELSE key

Digits == {"0", "1", "2", "3", "4", "5", "6", "7", "8", "9"}

Letters ==
    {"a", "b", "c", "d", "e", "f", "g", "h", "i", "j", "k", "l", "m", "n", "o",
     "p", "q", "r", "s", "t", "u", "v", "w", "x", "y", "z"}

FunctionKeys ==
    {"f1", "f2", "f3", "f4", "f5", "f6", "f7", "f8", "f9", "f10", "f11", "f12",
     "f13", "f14", "f15", "f16", "f17", "f18", "f19", "f20", "f21", "f22",
     "f23", "f24"}

allowed_base_keys ==
    Digits \cup Letters \cup FunctionKeys \cup
    {"enter", "esc", "space", "backspace", "delete", "insert", "tab", "caps lock",
     "page up", "page down", "home", "end", "up", "down", "left", "right",
     "print screen", "scroll lock", "pause", "num lock",
     "-", "=", ",", ".", "/", "backslash", "[", "]", ";", "apostrophe", "grave"}

modifiers_in_order == <<"ctrl", "shift", "alt">>

\* mapped_key.startswith('f') and mapped_key[1:].isdigit()
f_and_digits(key) == key \in FunctionKeys \cup {"f0", "f99"}

\* the loop of normalize_trigger_key over the parts: [ok, modifiers, base_key],
\* base_key "" for None
RECURSIVE normalize_parts(_, _, _)
normalize_parts(parts, modifiers, base_key) ==
    IF parts = <<>> THEN [ok |-> TRUE, modifiers |-> modifiers, base_key |-> base_key]
    ELSE LET normalized_part == get_or_self(modifier_aliases, Head(parts))
             mapped_key == get_or_self(key_aliases, normalized_part)
         IN  IF normalized_part \in {"ctrl", "shift", "alt"}
             THEN normalize_parts(Tail(parts), modifiers \cup {normalized_part}, base_key)
             ELSE IF \/ f_and_digits(mapped_key)
                     \/ mapped_key \in allowed_base_keys
                     \/ mapped_key \in OtherLetters
             THEN normalize_parts(Tail(parts), modifiers, mapped_key)
             ELSE [ok |-> FALSE, modifiers |-> modifiers, base_key |-> base_key]

\* normalize_trigger_key joining the modifiers in the order alt, shift, ctrl
normalize_trigger_key_reversed(raw) ==
    LET parts == SelectSeq([i \in 1..Len(raw) |-> strip_lower(raw[i])],
                           LAMBDA part : part # "")
        done == normalize_parts(parts, {}, "")
        ordered_modifiers == SelectSeq(<<"alt", "shift", "ctrl">>,
                                       LAMBDA m : m \in done.modifiers)
    IN  IF parts = <<>> THEN <<>>
        ELSE IF ~done.ok \/ done.base_key = "" THEN <<>>
        ELSE Append(ordered_modifiers, done.base_key)

\* normalize_trigger_key: the canonical trigger, <<>> for None
normalize_trigger_key(raw) ==
    LET parts == SelectSeq([i \in 1..Len(raw) |-> strip_lower(raw[i])],
                           LAMBDA part : part # "")
        done == normalize_parts(parts, {}, "")
        ordered_modifiers == SelectSeq(modifiers_in_order,
                                       LAMBDA m : m \in done.modifiers)
    IN  IF parts = <<>> THEN <<>>
        ELSE IF ~done.ok \/ done.base_key = "" THEN <<>>
        ELSE Append(ordered_modifiers, done.base_key)

\* set_trigger_key assigning every valid value, whatever the other triggers are
set_trigger_key_unchecked(s, key) ==
    LET normalized == normalize_trigger_key(key) IN
    IF normalized = <<>> THEN [ok |-> FALSE, value |-> <<>>]
    ELSE [ok |-> TRUE, value |-> normalized]

\* set_trigger_key up to its assignment: [ok, value]
set_trigger_key(s, key) ==
    LET normalized == normalize_trigger_key(key) IN
    IF normalized = <<>> THEN [ok |-> FALSE, value |-> <<>>]
    ELSE IF normalized = s.dictation_trigger_key THEN [ok |-> FALSE, value |-> <<>>]
    ELSE IF s.clear_buffer_trigger_key # <<>> /\ normalized = s.clear_buffer_trigger_key
    THEN [ok |-> FALSE, value |-> <<>>]
    ELSE [ok |-> TRUE, value |-> normalized]

\* set_clear_buffer_trigger_key up to its assignment: [ok, value]; the empty
\* key disables the trigger
set_clear_buffer_trigger_key(s, key) ==
    LET normalized == normalize_trigger_key(key) IN
    IF key = <<>> THEN [ok |-> TRUE, value |-> <<>>]
    ELSE IF normalized = <<>> THEN [ok |-> FALSE, value |-> <<>>]
    ELSE IF normalized = s.trigger_key THEN [ok |-> FALSE, value |-> <<>>]
    ELSE IF normalized = s.dictation_trigger_key THEN [ok |-> FALSE, value |-> <<>>]
    ELSE [ok |-> TRUE, value |-> normalized]

\* set_dictation_trigger_key up to its assignment: [ok, value]
set_dictation_trigger_key(s, key) ==
    LET normalized == normalize_trigger_key(key) IN
    IF key = <<>> THEN [ok |-> FALSE, value |-> <<>>]
    ELSE IF normalized = <<>> THEN [ok |-> FALSE, value |-> <<>>]
    ELSE IF normalized = s.trigger_key THEN [ok |-> FALSE, value |-> <<>>]
    ELSE IF s.clear_buffer_trigger_key # <<>> /\ normalized = s.clear_buffer_trigger_key
    THEN [ok |-> FALSE, value |-> <<>>]
    ELSE [ok |-> TRUE, value |-> normalized]

\* the system clipboard: [format, text], format "text" (CF_UNICODETEXT),
\* "empty" or "data" (an image, files: no text format)
EmptyClipboard == [format |-> "empty", text |-> <<>>]

\* the last call of the API the claims about single calls speak of
NoCall == [op |-> "none"]

\* the default arguments of AutoCorrectService(...)
DefaultTrigger == <<"ctrl", "space">>

DefaultClearTrigger == <<"ctrl", "shift", "delete">>

DefaultDictationTrigger == <<"ctrl", "shift", "d">>

\* AutoCorrectService(...), the fields after construction; history_manager
\* is <<>> for None and <<hm>> for a collaborator, gui_callbacks <<>> for None
\* and <<"overlay">> for the dictionary the settings window installs
AutoCorrectService(trigger_key, clear_buffer_trigger_key, dictation_trigger_key, history_manager) ==
    [running |-> FALSE,
     suppress_events |-> FALSE,
     paragraph_enabled |-> TRUE,
     trigger_key |-> or(normalize_trigger_key(trigger_key), <<"ctrl", "space">>),
     clear_buffer_trigger_key |-> normalize_trigger_key(clear_buffer_trigger_key),
     dictation_trigger_key |-> or(normalize_trigger_key(dictation_trigger_key),
                                  <<"ctrl", "shift", "d">>),
     keyboard_hook |-> FALSE,
     executor |-> FALSE,
     pending_correction |-> FALSE,
     in_selection_mode |-> FALSE,
     current_candidates |-> <<>>,
     current_candidate_index |-> 0,
     baseline_text |-> <<>>,
     accepted_text_accumulator |-> <<>>,
     current_prefix |-> <<>>,
     current_suffix |-> <<>>,
     current_region_original |-> <<>>,
     last_preview_text |-> <<>>,
     last_region_snapshot |-> <<>>,
     last_requested_region |-> <<>>,
     history_manager |-> history_manager,
     gui_callbacks |-> <<>>,
     is_listening |-> FALSE]

Init ==
    /\ svc = AutoCorrectService(DefaultTrigger, DefaultClearTrigger, DefaultDictationTrigger,
                               <<>>)
    /\ kb = KeystrokeBuffer(max_buffer_size)
    /\ control \in InitialControls
    /\ foreground = 1
    /\ threads = EmptyBag
    /\ tasks = <<>>
    /\ submitted = 0
    /\ clear_handled = FALSE
    /\ clipboard = EmptyClipboard
    /\ title = <<>>
    /\ call = NoCall

RemoveAt(q, i) == SubSeq(q, 1, i - 1) \o SubSeq(q, i + 1, Len(q))

Supersede(q) == [i \in 1..Len(q) |-> [q[i] EXCEPT !.superseded = TRUE]]

\* start()
Start ==
    /\ ~svc.running
    /\ svc' = [svc EXCEPT !.running = TRUE, !.executor = TRUE, !.keyboard_hook = TRUE]
    /\ UNCHANGED <<kb, control, foreground, clipboard, title, call, threads, tasks, submitted, clear_handled>>

\* the hook delivers a key-down event to _on_key_event; the key reaches
\* the application unless the callback suppressed it
KeyEvent(e) ==
    /\ svc.keyboard_hook
    /\ \E tick \in TicksFor(kb, foreground), start_ok \in BOOLEAN :
       \E out \in {on_key_event(svc, kb, foreground, tick, e, start_ok)},
          wanted \in {on_key_event(svc, kb, foreground, tick, e, TRUE).spawn.kind} :
         /\ start_ok \/ wanted # "free"
         /\ wanted # "free" => BagCardinality(threads) < MaxThreads
         /\ wanted = "trigger" => submitted + CountLive("trigger") < MaxSubmit
         /\ Len(app_key(control, e)) > Len(control) => Len(control) < MaxLen
         /\ svc' = out.svc
         /\ kb' = out.kb
         /\ threads' = IF out.spawn.kind = "free" THEN threads
                       ELSE threads (+) SetToBag({out.spawn})
         /\ control' = IF out.suppressed THEN control ELSE app_key(control, e)
         /\ tasks' = IF out.raised THEN Supersede(tasks) ELSE tasks
         /\ clear_handled' = (clear_handled /\ wanted # "trigger")
    /\ UNCHANGED <<foreground, clipboard, title, call, submitted>>

\* a task is [pc, payload, text, request, superseded]: its position, the
\* text sent to cleanup_paragraph, the text its done-callback is writing, and
\* two history fields: the prefix, region and suffix its request was built
\* with, and whether its session was ended while it was in the pool (by the
\* clear-buffer trigger, the reset of the key callback's except clause, or a
\* newer submission)
NewTask(payload, request) ==
    [pc |-> "run", payload |-> payload, text |-> <<>>, request |-> request,
     superseded |-> FALSE]

\* a trigger thread: _safe_trigger_correction up to the end of the lock
\* section of _trigger_correction
TriggerCheck(th) ==
    /\ th.kind = "trigger" /\ th.pc = "check"
    /\ \E out \in {trigger_check([svc EXCEPT !.executor = TRUE])} :
       /\ svc' = out.svc
       /\ threads' = IF out.proceed THEN Become(th, [th EXCEPT !.pc = "capture"])
                     ELSE Finish(th)
    /\ clear_handled' = FALSE
    /\ UNCHANGED <<kb, control, foreground, clipboard, title, call, tasks, submitted>>

\* the request built from the captured text, and its submission to the pool
Submit(th, s, buffer_text) ==
    \E out \in {capture_request(s, buffer_text)} :
    /\ svc' = out.svc
    /\ tasks' = IF out.submit
                THEN Append(Supersede(tasks),
                            NewTask(out.payload,
                                    [prefix |-> out.svc.current_prefix,
                                     region |-> out.svc.current_region_original,
                                     suffix |-> out.svc.current_suffix]))
                ELSE tasks
    /\ submitted' = IF out.submit THEN submitted + 1 ELSE submitted
    /\ threads' = Finish(th)

\* a trigger thread reads the shadow buffer; a blank one sends it to the
\* control: it enters _suspend_events and calls select_all_text; ok says
\* whether the bridge will serve this read (select_all_text returns True
\* and get_active_text a text)
TriggerCapture(th) ==
    /\ th.kind = "trigger" /\ th.pc = "capture"
    /\ \E tick \in TicksFor(kb, foreground), ok \in BOOLEAN :
       \E buffer_text \in {get_buffer(kb, foreground, tick)} :
         /\ kb' = update_current_window(kb, foreground, tick)
         /\ IF strip(buffer_text) # <<>>
            THEN ok /\ Submit(th, svc, buffer_text)
            ELSE /\ svc' = [svc EXCEPT !.suppress_events = TRUE]
                 /\ threads' = Become(th, [th EXCEPT !.pc = "fallback", !.ok = ok])
                 /\ UNCHANGED <<tasks, submitted>>
    /\ clear_handled' = FALSE
    /\ UNCHANGED <<control, foreground, clipboard, title, call>>

\* the fallback read: _suspend_events is left and get_active_text returns
\* the control's text, the captured text (a failed or blank read: give up)
TriggerFallback(th) ==
    /\ th.kind = "trigger" /\ th.pc = "fallback"
    /\ LET s0 == [svc EXCEPT !.suppress_events = FALSE] IN
       IF ~th.ok \/ strip(control) = <<>>
       THEN /\ svc' = [s0 EXCEPT !.pending_correction = FALSE]
            /\ threads' = Finish(th)
            /\ UNCHANGED <<tasks, submitted>>
       ELSE Submit(th, s0, control)
    /\ clear_handled' = FALSE
    /\ UNCHANGED <<kb, control, foreground, clipboard, title, call>>

\* a clear thread: _safe_clear_saved_paragraphs
ClearSaved(th) ==
    /\ th.kind = "clear"
    /\ \E tick \in TicksFor(kb, foreground) :
         /\ svc' = clear_saved_paragraphs(svc)
         /\ kb' = clear_buffer(kb, foreground, tick)
    /\ threads' = Finish(th)
    /\ tasks' = Supersede(tasks)
    /\ clear_handled' = TRUE
    /\ UNCHANGED <<control, foreground, clipboard, title, call, submitted>>

\* a navigation thread: the lock section of _navigate_candidates
Navigate(th) ==
    /\ th.kind = "nav" /\ th.pc = "navigate"
    /\ \E out \in {navigate_candidates(svc, th.dir)} :
       /\ svc' = out.svc
       /\ threads' = IF out.show THEN Become(th, [th EXCEPT !.pc = "show"])
                     ELSE Finish(th)
    /\ UNCHANGED <<kb, control, foreground, clipboard, title, call, tasks, submitted, clear_handled>>

\* a navigation thread calls _show_candidate(self._current_candidate_index)
NavShow(th) ==
    /\ th.kind = "nav" /\ th.pc = "show"
    /\ \E out \in {show_candidate(svc, svc.current_candidate_index)} :
       IF out.go
       THEN /\ svc' = [svc EXCEPT !.suppress_events = TRUE]
            /\ threads' = Become(th, [th EXCEPT !.pc = "write", !.text = out.new_text])
       ELSE /\ threads' = Finish(th)
            /\ UNCHANGED svc
    /\ UNCHANGED <<kb, control, foreground, clipboard, title, call, tasks, submitted, clear_handled>>

\* set_active_text returns to _show_candidate
Written(new_text) ==
    \E tick \in TicksFor(kb, foreground), success \in BOOLEAN :
    \E out \in {shown_candidate(svc, kb, foreground, tick, new_text, success)} :
      /\ control' = set_active_text(new_text, control, success)
      /\ svc' = out.svc
      /\ kb' = out.kb

NavWritten(th) ==
    /\ th.kind = "nav" /\ th.pc = "write"
    /\ Written(th.text)
    /\ threads' = Finish(th)
    /\ UNCHANGED <<foreground, clipboard, title, call, tasks, submitted, clear_handled>>

\* a worker: cleanup_paragraph returns or raises, and the done-callback
\* _store_and_show_candidates runs up to _show_candidate(0)
TaskDoneWith(i, result) ==
    \E out \in {store_candidates(svc, result)} :
    /\ svc' = out.svc
    /\ tasks' = IF out.show THEN [tasks EXCEPT ![i] = [@ EXCEPT !.pc = "show"]]
                ELSE RemoveAt(tasks, i)

TaskDone(i) ==
    /\ i <= max_workers
    /\ tasks[i].pc = "run"
    /\ \E result \in Results(tasks[i].payload) : TaskDoneWith(i, result)
    /\ UNCHANGED <<kb, control, foreground, clipboard, title, call, threads, submitted, clear_handled>>

TaskShow(i) ==
    /\ tasks[i].pc = "show"
    /\ \E out \in {show_candidate(svc, 0)} :
       IF out.go
       THEN /\ svc' = [svc EXCEPT !.suppress_events = TRUE]
            /\ tasks' = [tasks EXCEPT ![i] = [@ EXCEPT !.pc = "write",
                                                       !.text = out.new_text]]
       ELSE /\ tasks' = RemoveAt(tasks, i)
            /\ UNCHANGED svc
    /\ UNCHANGED <<kb, control, foreground, clipboard, title, call, threads, submitted, clear_handled>>

TaskWritten(i) ==
    /\ tasks[i].pc = "write"
    /\ Written(tasks[i].text)
    /\ tasks' = RemoveAt(tasks, i)
    /\ UNCHANGED <<foreground, clipboard, title, call, threads, submitted, clear_handled>>

Next ==
    \/ Start
    \/ \E e \in Events : KeyEvent(e)
    \/ \E th \in BagToSet(threads) :
         \/ TriggerCheck(th)
         \/ TriggerCapture(th)
         \/ TriggerFallback(th)
         \/ ClearSaved(th)
         \/ Navigate(th)
         \/ NavShow(th)
         \/ NavWritten(th)
    \/ \E i \in 1..Len(tasks) :
         \/ TaskDone(i)
         \/ TaskShow(i)
         \/ TaskWritten(i)

Spec == Init /\ [][Next]_vars

\* ------------------------------------------------------------ dictation
\* a dictation thread: toggle_dictation; started says whether
\* DictationManager.start_listening succeeds
ToggleDictation(th) ==
    /\ th.kind = "dictation"
    /\ \E started \in BOOLEAN :
         svc' = IF svc.is_listening THEN [svc EXCEPT !.is_listening = FALSE]
                ELSE [svc EXCEPT !.is_listening = started]
    /\ threads' = Finish(th)
    /\ UNCHANGED <<kb, control, foreground, clipboard, title, call, tasks, submitted, clear_handled>>

DictationEvent == [name |-> "d", held |-> {"ctrl", "shift"}]

DictationEvents ==
    {[name |-> "a", held |-> {}],
     [name |-> "space", held |-> {"ctrl"}],
     DictationEvent}

NextDictation ==
    \/ Start
    \/ \E e \in DictationEvents : KeyEvent(e)
    \/ \E th \in BagToSet(threads) :
         \/ TriggerCheck(th)
         \/ TriggerCapture(th)
         \/ TriggerFallback(th)
         \/ ToggleDictation(th)
    \/ \E i \in 1..Len(tasks) :
         \/ TaskDone(i)
         \/ TaskShow(i)
         \/ TaskWritten(i)

SpecDictation == Init /\ [][NextDictation]_vars

\* ------------------------------------------------------------ history
\* HistoryManager(...): an empty table, a database that can be written
HistoryManager == [corrections |-> <<>>, errors |-> 0, db_ok |-> TRUE]

\* the service constructed with a history collaborator, the control
\* holding a text already
InitHistory ==
    /\ svc = AutoCorrectService(DefaultTrigger, DefaultClearTrigger, DefaultDictationTrigger,
                               <<HistoryManager>>)
    /\ kb = KeystrokeBuffer(max_buffer_size)
    /\ control = <<" ", "b", " ">>
    /\ foreground = 1
    /\ threads = EmptyBag
    /\ tasks = <<>>
    /\ submitted = 0
    /\ clear_handled = FALSE
    /\ clipboard = EmptyClipboard
    /\ title = <<>>
    /\ call = NoCall

\* the database of the history becomes unwritable (locked, disk full)
DatabaseFails ==
    /\ svc.history_manager[1].db_ok
    /\ svc' = [svc EXCEPT !.history_manager[1].db_ok = FALSE]
    /\ UNCHANGED <<kb, control, foreground, clipboard, title, call, threads, tasks, submitted, clear_handled>>

HistoryEvents ==
    {[name |-> "esc", held |-> {}],
     [name |-> "space", held |-> {"ctrl"}],
     [name |-> "right", held |-> {"ctrl"}]}

NextHistory ==
    \/ Start
    \/ DatabaseFails
    \/ \E e \in HistoryEvents : KeyEvent(e)
    \/ \E th \in BagToSet(threads) :
         \/ TriggerCheck(th)
         \/ TriggerCapture(th)
         \/ TriggerFallback(th)
         \/ Navigate(th)
         \/ NavShow(th)
         \/ NavWritten(th)
    \/ \E i \in 1..Len(tasks) :
         \/ TaskDone(i)
         \/ TaskShow(i)
         \/ TaskWritten(i)

SpecHistory == InitHistory /\ [][NextHistory]_vars

\* ------------------------------------------------------------ the text bridge
\* an Optional text is <<>> for None and <<t>> for the text t
\* _get_clipboard_text: the text when the clipboard holds the text format
\* and can be opened, None otherwise
get_clipboard_text(cb, readable) ==
    IF readable /\ cb.format = "text" THEN <<cb.text>> ELSE <<>>

\* _set_clipboard_text by the outcome of its retries: [clipboard, ok].
\* "ok": emptied and set; "locked": OpenClipboard raised each time;
\* "emptied": EmptyClipboard passed and SetClipboardData raised each time
ClipboardOutcomes == {"ok", "locked", "emptied"}

set_clipboard_text(cb, text, outcome) ==
    IF outcome = "ok" THEN [clipboard |-> [format |-> "text", text |-> text], ok |-> TRUE]
    ELSE IF outcome = "emptied" THEN [clipboard |-> EmptyClipboard, ok |-> FALSE]
    ELSE [clipboard |-> cb, ok |-> FALSE]

\* the environment of one set_active_text call: whether the win32 modules
\* are there (they are, on the platform the program runs on), the clipboard
\* can be read, how staging and restoring the clipboard end, whether the
\* Ctrl+A, Ctrl+V keystrokes reach the control, whether UI Automation finds
\* an edit control that takes the text, whether the caller's control handle
\* takes it, whether the foreground window takes WM_SETTEXT, and whether
\* GetFocus returns the focused control and that takes WM_SETTEXT
Environments ==
    [win32 : {TRUE}, readable : BOOLEAN, stage : ClipboardOutcomes,
     keys : BOOLEAN, restore : {"ok", "locked"}, uia : BOOLEAN,
     handle : BOOLEAN, main : BOOLEAN, focus : {"none", "refuses", "takes"}]

\* the desktop a strategy works on and leaves: [control, clipboard, title, ok]
Desktop(ctl, cb, ttl, ok) == [control |-> ctl, clipboard |-> cb, title |-> ttl, ok |-> ok]

\* _set_text_via_clipboard
set_text_via_clipboard(text, d, env) ==
    IF ~env.win32 THEN [d EXCEPT !.ok = FALSE]
    ELSE
      LET original_clipboard == get_clipboard_text(d.clipboard, env.readable)
          staged == set_clipboard_text(d.clipboard, text, env.stage)
          pasted == IF env.keys THEN text ELSE d.control
          restored == IF original_clipboard # <<>>
                      THEN set_clipboard_text(staged.clipboard, original_clipboard[1],
                                              env.restore).clipboard
                      ELSE staged.clipboard
      IN  IF ~staged.ok THEN Desktop(d.control, staged.clipboard, d.title, FALSE)
          ELSE Desktop(pasted, restored, d.title, TRUE)

\* _set_text_via_uiautomation
set_text_via_uiautomation(text, d, env) ==
    IF env.uia THEN [d EXCEPT !.control = text, !.ok = TRUE]
    ELSE [d EXCEPT !.ok = FALSE]

\* _set_text_via_control
set_text_via_control(text, d, env) ==
    IF env.handle THEN [d EXCEPT !.control = text, !.ok = TRUE]
    ELSE [d EXCEPT !.ok = FALSE]

\* _set_text_via_win32: WM_SETTEXT to the foreground window, whose text is
\* its title, then to the focused control, each verified by the length of
\* the text the window then has
set_text_via_win32(text, d, env) ==
    LET d1 == IF env.main THEN [d EXCEPT !.title = text] ELSE d
        d2 == IF env.focus = "takes" THEN [d1 EXCEPT !.control = text] ELSE d1
    IN  IF Len(d1.title) > 0 THEN [d1 EXCEPT !.ok = TRUE]
        ELSE IF env.focus # "none"
        THEN [d2 EXCEPT !.ok = Len(d2.control) > 0]
        ELSE [d1 EXCEPT !.ok = FALSE]

\* set_active_text, strategy after strategy: [desktop, tried, result]; the
\* caller's handle has_control is tried only when one was passed
Strategies == <<"clipboard", "uiautomation", "control", "win32">>

set_active_text_strategies(text, has_control, d, env) ==
    LET by_clipboard == set_text_via_clipboard(text, d, env)
        by_uia == set_text_via_uiautomation(text, by_clipboard, env)
        by_control == IF has_control THEN set_text_via_control(text, by_uia, env)
                      ELSE [by_uia EXCEPT !.ok = FALSE]
        by_win32 == set_text_via_win32(text, by_control, env)
        with_control(names) == IF has_control THEN names
                               ELSE SelectSeq(names, LAMBDA n : n # "control")
        out(dd, n) == [desktop |-> dd, tried |-> with_control(SubSeq(Strategies, 1, n)),
                       result |-> dd.ok]
    IN  IF ~env.win32 THEN [desktop |-> [d EXCEPT !.ok = FALSE], tried |-> <<>>,
                            result |-> FALSE]
        ELSE IF by_clipboard.ok THEN out(by_clipboard, 1)
        ELSE IF by_uia.ok THEN out(by_uia, 2)
        ELSE IF has_control /\ by_control.ok THEN out(by_control, 3)
        ELSE out(by_win32, 4)

BridgeTexts == {<<>>, <<"X">>}

BridgeClipboards ==
    {EmptyClipboard,
     [format |-> "data", text |-> <<>>],
     [format |-> "text", text |-> <<>>],
     [format |-> "text", text |-> <<"c">>]}

\* a desktop with a focused control, a foreground window and a clipboard
InitBridge ==
    /\ svc = AutoCorrectService(DefaultTrigger, DefaultClearTrigger, DefaultDictationTrigger,
                               <<>>)
    /\ kb = KeystrokeBuffer(max_buffer_size)
    /\ control \in {<<>>, <<"b">>}
    /\ foreground = 1
    /\ threads = EmptyBag
    /\ tasks = <<>>
    /\ submitted = 0
    /\ clear_handled = FALSE
    /\ clipboard \in BridgeClipboards
    /\ title = <<"w">>
    /\ call = NoCall

\* one call of set_active_text(text, control)
SetActiveText ==
    \E text \in BridgeTexts, has_control \in BOOLEAN, env \in Environments :
      \E out \in {set_active_text_strategies(
                     text, has_control, Desktop(control, clipboard, title, FALSE), env)} :
          /\ control' = out.desktop.control
          /\ clipboard' = out.desktop.clipboard
          /\ title' = out.desktop.title
          /\ call' = [op |-> "set_active_text", text |-> text,
                      has_control |-> has_control, tried |-> out.tried,
                      result |-> out.result,
                      control_before |-> control, clipboard_before |-> clipboard]
          /\ UNCHANGED <<svc, kb, foreground, threads, tasks, submitted, clear_handled>>

\* the user copies something else
Copy ==
    /\ \E cb \in BridgeClipboards : clipboard' = cb
    /\ clipboard' # clipboard
    /\ call' = NoCall
    /\ UNCHANGED <<svc, kb, control, foreground, threads, tasks, submitted,
                   clear_handled, title>>

NextBridge == SetActiveText \/ Copy

SpecBridge == InitBridge /\ [][NextBridge]_vars

\* ===================================================================
\* The three triggers: construction by main(), and the setters
\* ===================================================================
\* the trigger strings tried, each the sequence of its parts: "ctrl+space",
\* "ctrl+shift+d", "ctrl+shift+delete", "shift+Ctrl+d", "control+del+shift",
\* "ctrl+x", "a+b", "ctrl+a+b", "ctrl", "win+a", "", " ", "f99", "ctrl++b"
RawTriggers ==
    {<<"ctrl", "space">>, <<"ctrl", "shift", "d">>, <<"ctrl", "shift", "delete">>,
     <<"shift", "Ctrl", "d">>, <<"control", "del", "shift">>, <<"ctrl", "x">>,
     <<"a", "b">>, <<"ctrl", "a", "b">>, <<"ctrl">>, <<"win", "a">>, <<>>, <<" ">>,
     <<"f99">>, <<"ctrl", "", "b">>}

\* the trigger strings a configuration file holds
ConfiguredTriggers ==
    {<<"ctrl", "space">>, <<"ctrl", "shift", "d">>, <<"ctrl", "shift", "delete">>,
     <<"ctrl", "x">>, <<"win", "a">>, <<>>}

\* raw.strip() is empty
blank(raw) == raw = <<>> \/ (Len(raw) = 1 /\ strip_lower(raw[1]) = "")

\* the triggers main() passes to AutoCorrectService for a configuration
main_triggers(config) ==
    LET normalized_trigger == normalize_trigger_key(config.trigger_key)
        trigger_key == or(normalized_trigger, DefaultTrigger)
        normalized_clear == normalize_trigger_key(config.clear_buffer_trigger_key)
        clear_trigger ==
            IF blank(config.clear_buffer_trigger_key) THEN <<>>
            ELSE IF normalized_clear # <<>>
            THEN IF normalized_clear = trigger_key THEN <<>> ELSE normalized_clear
            ELSE DefaultClearTrigger
        normalized_dictation == normalize_trigger_key(config.dictation_trigger_key)
        dictation_trigger ==
            IF /\ ~blank(config.dictation_trigger_key)
               /\ normalized_dictation # <<>>
               /\ normalized_dictation # trigger_key
               /\ normalized_dictation # clear_trigger
            THEN normalized_dictation
            ELSE DefaultDictationTrigger
    IN  [trigger_key |-> trigger_key, clear_buffer_trigger_key |-> clear_trigger,
         dictation_trigger_key |-> dictation_trigger]

\* the service as main() constructs it, or as a caller constructs it directly
InitTriggers ==
    /\ \/ \E config \in [trigger_key : ConfiguredTriggers,
                         clear_buffer_trigger_key : ConfiguredTriggers,
                         dictation_trigger_key : ConfiguredTriggers] :
            LET t == main_triggers(config)
            IN  /\ svc = AutoCorrectService(t.trigger_key, t.clear_buffer_trigger_key,
                                            t.dictation_trigger_key, <<>>)
                /\ call = [op |-> "main", config |-> config]
       \/ \E trigger_key \in RawTriggers, dictation_trigger_key \in RawTriggers :
            /\ svc = AutoCorrectService(trigger_key, DefaultClearTrigger,
                                        dictation_trigger_key, <<>>)
            /\ call = [op |-> "__init__", trigger_key |-> trigger_key,
                       dictation_trigger_key |-> dictation_trigger_key]
    /\ kb = KeystrokeBuffer(max_buffer_size)
    /\ control = <<>>
    /\ foreground = 1
    /\ threads = EmptyBag
    /\ tasks = <<>>
    /\ submitted = 0
    /\ clear_handled = FALSE
    /\ clipboard = EmptyClipboard
    /\ title = <<>>

\* the three configured triggers
Triggers(s) == <<s.trigger_key, s.clear_buffer_trigger_key, s.dictation_trigger_key>>

\* one call of set_trigger_key(key)
SetTriggerKey ==
    \E key \in RawTriggers :
      \E out \in {set_trigger_key(svc, key)} :
          /\ svc' = IF out.ok THEN [svc EXCEPT !.trigger_key = out.value] ELSE svc
          /\ call' = [op |-> "set_trigger_key", key |-> key, result |-> out.ok,
                      before |-> Triggers(svc)]
          /\ UNCHANGED <<kb, control, foreground, threads, tasks, submitted,
                         clear_handled, clipboard, title>>

\* one call of set_clear_buffer_trigger_key(key)
SetClearBufferTriggerKey ==
    \E key \in RawTriggers :
      \E out \in {set_clear_buffer_trigger_key(svc, key)} :
          /\ svc' = IF out.ok THEN [svc EXCEPT !.clear_buffer_trigger_key = out.value]
                    ELSE svc
          /\ call' = [op |-> "set_clear_buffer_trigger_key", key |-> key,
                      result |-> out.ok, before |-> Triggers(svc)]
          /\ UNCHANGED <<kb, control, foreground, threads, tasks, submitted,
                         clear_handled, clipboard, title>>

\* one call of set_dictation_trigger_key(key)
SetDictationTriggerKey ==
    \E key \in RawTriggers :
      \E out \in {set_dictation_trigger_key(svc, key)} :
          /\ svc' = IF out.ok THEN [svc EXCEPT !.dictation_trigger_key = out.value]
                    ELSE svc
          /\ call' = [op |-> "set_dictation_trigger_key", key |-> key,
                      result |-> out.ok, before |-> Triggers(svc)]
          /\ UNCHANGED <<kb, control, foreground, threads, tasks, submitted,
                         clear_handled, clipboard, title>>

\* '+'.join(parts): the string as the sequence of its parts and "+" signs
RECURSIVE join_plus(_)
join_plus(parts) ==
    IF Len(parts) <= 1 THEN parts
    ELSE <<Head(parts), "+">> \o join_plus(Tail(parts))

\* string.split('+'): the parts between the "+" signs, "" between two signs
RECURSIVE split_plus(_, _)
split_plus(string, part) ==
    IF string = <<>> THEN <<part>>
    ELSE IF Head(string) = "+" THEN <<part>> \o split_plus(Tail(string), "")
    ELSE split_plus(Tail(string), Head(string))

\* the strings normalize_trigger_key is called with: the triggers tried,
\* "alt+caps_lock", "ctrl+control+shift+d", "alt+shift+ctrl+pageup", "alt+f5"
NormalizeInputs ==
    RawTriggers \cup
    {<<"alt", "caps_lock">>, <<"ctrl", "control", "shift", "d">>,
     <<"alt", "shift", "ctrl", "pageup">>, <<"alt", "f5">>}

\* one call of the static normalize_trigger_key(raw)
NormalizeTriggerKey ==
    \E raw \in NormalizeInputs :
      /\ call' = [op |-> "normalize_trigger_key", key |-> raw,
                  value |-> normalize_trigger_key(raw)]
      /\ UNCHANGED <<svc, kb, control, foreground, threads, tasks, submitted,
                     clear_handled, clipboard, title>>

NextTriggers ==
    \/ SetTriggerKey
    \/ SetClearBufferTriggerKey
    \/ SetDictationTriggerKey
    \/ NormalizeTriggerKey

SpecTriggers == InitTriggers /\ [][NextTriggers]_vars

\* ===================================================================
\* The corrector: cleanup_paragraph and its pool of provider calls
\* ===================================================================
MAX_CANDIDATES == 5

\* _clean_ai_response on a response text; the quote character, the prefix
\* "Corrected:" and the code fence are one element each, written by name
clean_ai_response(text) ==
    LET last(t) == t[Len(t)]
        inner(t) == SubSeq(t, 2, Len(t) - 1)
        unquoted == IF Head(text) = "quote" /\ last(text) = "quote"
                    THEN inner(text) ELSE text
        unprefixed == IF unquoted # <<>> /\ Head(unquoted) = "Corrected:"
                      THEN strip(Tail(unquoted)) ELSE unquoted
        unfenced == IF unprefixed # <<>> /\ Head(unprefixed) = "fence"
                       /\ last(unprefixed) = "fence"
                    THEN strip(inner(unprefixed)) ELSE unprefixed
    IN  IF text = <<>> THEN <<>> ELSE strip(unfenced)

\* what the provider does with one prompt: "raises" (an error, a timeout of
\* the client), "none" (no response, or one without a text), or a text
Responses(index) ==
    LET v == <<<<"v0">>, <<"v1">>, <<"v2">>, <<"v3">>, <<"v4">>>>[index + 1] IN
    {[kind |-> "raises", text |-> <<>>],
     [kind |-> "none", text |-> <<>>],
     [kind |-> "text", text |-> <<>>],
     [kind |-> "text", text |-> <<" ", "quote", "quote">>],
     [kind |-> "text", text |-> <<"Corrected:", " ">> \o v \o <<"\n">>],
     [kind |-> "text", text |-> v]}

\* generate_single_version: <<>> for None, or <<corrected>>
generate_single_version(response) ==
    IF response.kind # "text" THEN <<>>
    ELSE LET corrected == clean_ai_response(strip(response.text))
         IN  IF corrected # <<>> THEN <<corrected>> ELSE <<>>

\* int(num_versions) clamped
requested_versions(num_versions) ==
    LET min(a, b) == IF a < b THEN a ELSE b
        max(a, b) == IF a > b THEN a ELSE b
    IN  max(1, min(num_versions, MAX_CANDIDATES))

\* versions_dict is the sequence of its items [index, result] in insertion
\* order; i in versions_dict, and versions_dict[i]
has_version(versions_dict, i) ==
    \E k \in 1..Len(versions_dict) : versions_dict[k].index = i

version_at(versions_dict, i) ==
    versions_dict[CHOOSE k \in 1..Len(versions_dict) : versions_dict[k].index = i].result

\* list(versions_dict.values())
RECURSIVE versions_as_completed(_, _)
versions_as_completed(versions_dict, n) ==
    IF versions_dict = <<>> THEN <<>>
    ELSE <<Head(versions_dict).result>> \o versions_as_completed(Tail(versions_dict), n)

\* [versions_dict[i] for i in range(requested_versions) if i in versions_dict]
RECURSIVE versions_in_order(_, _)
versions_in_order(versions_dict, n) ==
    IF n = 0 THEN <<>>
    ELSE versions_in_order(versions_dict, n - 1) \o
         (IF has_version(versions_dict, n - 1)
          THEN <<version_at(versions_dict, n - 1)>> ELSE <<>>)

\* cleanup_paragraph returning whatever versions it collected
returned_versions(versions, text) == versions

\* the end of cleanup_paragraph: the versions, or the original text
returned(versions, text) == IF versions = <<>> THEN <<text>> ELSE versions

CorrectorTexts == {<<>>, <<" ">>, <<"t">>}

\* the num_versions tried; one above MAX_CANDIDATES is the only one clamped down
NumVersions == {0, 1, 3, 6}

InitCorrector ==
    /\ svc = AutoCorrectService(DefaultTrigger, DefaultClearTrigger, DefaultDictationTrigger,
                               <<>>)
    /\ kb = KeystrokeBuffer(max_buffer_size)
    /\ control = <<>>
    /\ foreground = 1
    /\ threads = EmptyBag
    /\ tasks = <<>>
    /\ submitted = 0
    /\ clear_handled = FALSE
    /\ clipboard = EmptyClipboard
    /\ title = <<>>
    /\ call = NoCall

CorrectorFrame ==
    UNCHANGED <<svc, kb, control, foreground, threads, tasks, submitted,
                clear_handled, clipboard, title>>

\* cleanup_paragraph(text, num_versions, candidate_settings) up to the
\* submission of the prompts; is_configured is the corrector's field, and
\* settings_ok says whether normalize_candidate_settings accepts the settings
CleanupParagraph ==
    /\ IF call.op = "none" THEN TRUE ELSE call.pc = "returned"
    /\ \E text \in CorrectorTexts, num_versions \in NumVersions,
          is_configured \in BOOLEAN, settings_ok \in BOOLEAN :
         LET n == requested_versions(num_versions)
             early == strip(text) = <<>> \/ ~is_configured \/ ~settings_ok
         IN  call' = [op |-> "cleanup_paragraph", text |-> text,
                      num_versions |-> num_versions, is_configured |-> is_configured,
                      settings_ok |-> settings_ok,
                      pc |-> IF early THEN "returned" ELSE "pool",
                      requested_versions |-> IF early THEN 0 ELSE n,
                      futures |-> IF early THEN <<>>
                                  ELSE [i \in 1..n |-> [state |-> "running",
                                                        result |-> <<>>]],
                      versions_dict |-> <<>>,
                      result |-> IF early THEN <<text>> ELSE <<>>]
    /\ CorrectorFrame

\* one pool thread: generate_single_version(index, ...) returns
GenerateSingleVersion ==
    /\ call.op = "cleanup_paragraph" /\ call.pc = "pool"
    /\ \E i \in 1..Len(call.futures) :
         /\ call.futures[i].state = "running"
         /\ \E response \in Responses(i - 1) :
              call' = [call EXCEPT !.futures[i] =
                         [state |-> "done", result |-> generate_single_version(response)]]
    /\ CorrectorFrame

\* as_completed yields a finished future: the body of the loop, lines 267-279
AsCompleted ==
    /\ call.op = "cleanup_paragraph" /\ call.pc = "pool"
    /\ \E i \in 1..Len(call.futures) :
         /\ call.futures[i].state = "done"
         /\ call' = [call EXCEPT
                       !.futures[i].state = "collected",
                       !.versions_dict =
                           IF call.futures[i].result # <<>>
                           THEN Append(@, [index |-> i - 1,
                                           result |-> call.futures[i].result[1]])
                           ELSE @]
    /\ CorrectorFrame

\* every future was yielded: the pool is left and the versions are returned
ReturnVersions ==
    /\ call.op = "cleanup_paragraph" /\ call.pc = "pool"
    /\ \A i \in 1..Len(call.futures) : call.futures[i].state = "collected"
    /\ call' = [call EXCEPT
                  !.pc = "returned",
                  !.result = returned(versions_in_order(call.versions_dict,
                                                        call.requested_versions),
                                      call.text)]
    /\ CorrectorFrame

NextCorrector ==
    \/ CleanupParagraph
    \/ GenerateSingleVersion
    \/ AsCompleted
    \/ ReturnVersions

SpecCorrector == InitCorrector /\ [][NextCorrector]_vars

\* ===================================================================
\* The shadow buffer: typing into one window
\* ===================================================================
\* the cap of the typing buffer: room for "hello"
MaxTyped == 5

\* the key names typed: characters, mapped keys, backspace, a modifier, a
\* navigation key, two function keys and an unknown name
TypedKeys ==
    {"h", "e", "l", "o", "space", "enter", "tab", "backspace", "shift", "left",
     "f1", "f13", "decimal"}

InitTyping ==
    /\ svc = AutoCorrectService(DefaultTrigger, DefaultClearTrigger, DefaultDictationTrigger,
                               <<>>)
    /\ kb = KeystrokeBuffer(MaxTyped)
    /\ control = <<>>
    /\ foreground = 1
    /\ threads = EmptyBag
    /\ tasks = <<>>
    /\ submitted = 0
    /\ clear_handled = FALSE
    /\ clipboard = EmptyClipboard
    /\ title = <<>>
    /\ call = NoCall

\* one call of on_key_press(key_name, is_backspace) as the key callback
\* makes it; the call record keeps the buffers before it
TypeKey ==
    /\ \E key_name \in TypedKeys, tick \in TicksFor(kb, foreground) :
         /\ kb' = on_key_press(kb, foreground, tick, key_name, key_name = "backspace")
         /\ call' = [op |-> "on_key_press", key_name |-> key_name, before |-> kb.buffers]
    /\ UNCHANGED <<svc, control, foreground, threads, tasks, submitted, clear_handled,
                   clipboard, title>>

NextTyping == TypeKey

SpecTyping == InitTyping /\ [][NextTyping]_vars

\* ===================================================================
\* The shadow buffer: several windows, focus changes and eviction
\* ===================================================================
\* the cap of each window's buffer, and the window handles
MaxBuffer == 2

Windows == {1, 2, 3}

\* the max_windows tried with cleanup_old_buffers
MaxWindowsTried == 2

BufferKeys == {"a", "backspace", "shift"}

BufferTexts == {<<>>, <<"a">>, <<"a", "a", "a">>}

\* the call record keeps a history of the windows whose buffers were read or
\* written, the latest last
Touch(touched, w) ==
    IF w = None THEN touched
    ELSE Append(SelectSeq(touched, LAMBDA x : x # w), w)

Hwnds(buffers) == {buffers[i].hwnd : i \in 1..Len(buffers)}

InitBuffer ==
    /\ svc = AutoCorrectService(DefaultTrigger, DefaultClearTrigger, DefaultDictationTrigger,
                               <<>>)
    /\ kb = KeystrokeBuffer(MaxBuffer)
    /\ control = <<>>
    /\ foreground = 1
    /\ threads = EmptyBag
    /\ tasks = <<>>
    /\ submitted = 0
    /\ clear_handled = FALSE
    /\ clipboard = EmptyClipboard
    /\ title = <<>>
    /\ call = [op |-> "none", touched |-> <<>>]

BufferFrame ==
    UNCHANGED <<svc, control, threads, tasks, submitted, clear_handled, clipboard, title>>

\* the user brings another window to the foreground
FocusChange ==
    /\ \E w \in Windows : w # foreground /\ foreground' = w
    /\ call' = [op |-> "focus", touched |-> call.touched]
    /\ UNCHANGED kb
    /\ BufferFrame

\* on_key_press(key_name, is_backspace)
OnKeyPress ==
    /\ \E key_name \in BufferKeys, tick \in TicksFor(kb, foreground) :
       \E k1 \in {on_key_press(kb, foreground, tick, key_name, key_name = "backspace")} :
         /\ kb' = k1
         /\ call' = [op |-> "on_key_press", key_name |-> key_name,
                     touched |-> Touch(call.touched, k1.current_window)]
    /\ UNCHANGED foreground
    /\ BufferFrame

\* add_text(text, window_handle)
AddText ==
    /\ \E text \in BufferTexts, window_handle \in Windows \cup {None},
          tick \in TicksFor(kb, foreground) :
       \E k1 \in {add_text(kb, foreground, tick, text, window_handle)} :
         /\ text # <<>>
         /\ kb' = k1
         /\ call' = [op |-> "add_text", window_handle |-> window_handle,
                     touched |-> Touch(call.touched,
                                       IF window_handle = None THEN k1.current_window
                                       ELSE window_handle)]
    /\ UNCHANGED foreground
    /\ BufferFrame

\* set_buffer(text)
SetBuffer ==
    /\ \E text \in BufferTexts, tick \in TicksFor(kb, foreground) :
       \E k1 \in {set_buffer(kb, foreground, tick, text)} :
         /\ kb' = k1
         /\ call' = [op |-> "set_buffer", touched |-> Touch(call.touched, k1.current_window)]
    /\ UNCHANGED foreground
    /\ BufferFrame

\* clear_buffer()
ClearBuffer ==
    /\ \E tick \in TicksFor(kb, foreground) :
       \E k1 \in {clear_buffer(kb, foreground, tick)} :
         /\ kb' = k1
         /\ call' = [op |-> "clear_buffer",
                     touched |-> IF buf_has(k1.buffers, k1.current_window)
                                 THEN Touch(call.touched, k1.current_window)
                                 ELSE call.touched]
    /\ UNCHANGED foreground
    /\ BufferFrame

\* get_buffer()
GetBuffer ==
    /\ \E tick \in TicksFor(kb, foreground) :
       \E k1 \in {update_current_window(kb, foreground, tick)} :
         /\ kb' = k1
         /\ call' = [op |-> "get_buffer",
                     touched |-> IF buf_has(k1.buffers, k1.current_window)
                                 THEN Touch(call.touched, k1.current_window)
                                 ELSE call.touched]
    /\ UNCHANGED foreground
    /\ BufferFrame

\* cleanup_old_buffers(max_windows); the call record keeps the handles it
\* removed
CleanupOldBuffers ==
    /\ \E K \in 1..MaxWindowsTried :
       \E k1 \in {cleanup_old_buffers(kb, K)} :
         /\ kb' = k1
         /\ call' = [op |-> "cleanup_old_buffers", max_windows |-> K,
                     removed |-> Hwnds(kb.buffers) \ Hwnds(k1.buffers),
                     touched |-> call.touched]
    /\ UNCHANGED foreground
    /\ BufferFrame

NextBuffer ==
    \/ FocusChange
    \/ OnKeyPress
    \/ AddText
    \/ SetBuffer
    \/ ClearBuffer
    \/ GetBuffer
    \/ CleanupOldBuffers

SpecBuffer == InitBuffer /\ [][NextBuffer]_vars

\* ------------------------------------------------------ loading indicator
\* The settings window installs the loading overlay's show and hide as the
\* service's 'start_loading' and 'stop_loading' callbacks. call is the last
\* of the two callbacks the service called.

\* the guarded call of start_loading before the submission
start_loading(s, overlay) ==
    IF s.running /\ s.gui_callbacks # <<>> THEN [op |-> "start_loading"] ELSE overlay

\* the call of stop_loading on the early returns of _trigger_correction
stop_loading(s, overlay) ==
    IF s.gui_callbacks # <<>> THEN [op |-> "stop_loading"] ELSE overlay

\* the guarded call of stop_loading after a failed submission and at the
\* head of _store_and_show_candidates
stop_loading_if_running(s, overlay) ==
    IF s.running /\ s.gui_callbacks # <<>> THEN [op |-> "stop_loading"] ELSE overlay

\* a submission whose except clause left the request as it was
submission_left_pending(s) == s

\* the except clause of the submission
submission_failed(s) ==
    [s EXCEPT !.pending_correction = FALSE,
              !.current_prefix = <<>>,
              !.current_suffix = <<>>,
              !.current_region_original = <<>>]

\* stop(), its lock section; shutdown(wait=True, cancel_futures=False) then
\* lets the submitted tasks and their done-callbacks run
stop(s) ==
    IF ~s.running THEN s
    ELSE [s EXCEPT !.running = FALSE, !.keyboard_hook = FALSE, !.executor = FALSE]

LoadingEvents ==
    {[name |-> "a", held |-> {}],
     [name |-> "space", held |-> {"ctrl"}],
     [name |-> "delete", held |-> {"ctrl", "shift"}]}

InitLoading ==
    /\ svc = [AutoCorrectService(DefaultTrigger, DefaultClearTrigger,
                                 DefaultDictationTrigger, <<>>)
                EXCEPT !.gui_callbacks = <<"overlay">>]
    /\ kb = KeystrokeBuffer(max_buffer_size)
    /\ control \in InitialControls
    /\ foreground = 1
    /\ threads = EmptyBag
    /\ tasks = <<>>
    /\ submitted = 0
    /\ clear_handled = FALSE
    /\ clipboard = EmptyClipboard
    /\ title = <<>>
    /\ call = NoCall

Stop ==
    /\ svc.running
    /\ svc' = stop(svc)
    /\ UNCHANGED <<kb, control, foreground, clipboard, title, call, threads, tasks, submitted, clear_handled>>

\* the request is built from the captured text; an early return hides the
\* indicator, otherwise the indicator is shown and the thread goes on to
\* the submission with the payload
PrepareRequest(th, s, buffer_text) ==
    \E out \in {capture_request([s EXCEPT !.executor = TRUE], buffer_text)} :
    /\ svc' = [out.svc EXCEPT !.executor = s.executor]
    /\ IF out.submit
       THEN /\ call' = start_loading(s, call)
            /\ threads' = Become(th, [th EXCEPT !.pc = "submit", !.text = out.payload])
       ELSE /\ call' = stop_loading(s, call)
            /\ threads' = Finish(th)
    /\ UNCHANGED <<tasks, submitted>>

LoadingCapture(th) ==
    /\ th.kind = "trigger" /\ th.pc = "capture"
    /\ \E tick \in TicksFor(kb, foreground), ok \in BOOLEAN :
       \E buffer_text \in {get_buffer(kb, foreground, tick)} :
         /\ kb' = update_current_window(kb, foreground, tick)
         /\ IF strip(buffer_text) # <<>>
            THEN ok /\ PrepareRequest(th, svc, buffer_text)
            ELSE /\ svc' = [svc EXCEPT !.suppress_events = TRUE]
                 /\ threads' = Become(th, [th EXCEPT !.pc = "fallback", !.ok = ok])
                 /\ UNCHANGED <<tasks, submitted, call>>
    /\ clear_handled' = FALSE
    /\ UNCHANGED <<control, foreground, clipboard, title>>

LoadingFallback(th) ==
    /\ th.kind = "trigger" /\ th.pc = "fallback"
    /\ \E s0 \in {[svc EXCEPT !.suppress_events = FALSE]} :
       IF ~th.ok \/ strip(control) = <<>>
       THEN /\ svc' = [s0 EXCEPT !.pending_correction = FALSE]
            /\ call' = stop_loading(s0, call)
            /\ threads' = Finish(th)
            /\ UNCHANGED <<tasks, submitted>>
       ELSE PrepareRequest(th, s0, control)
    /\ clear_handled' = FALSE
    /\ UNCHANGED <<kb, control, foreground, clipboard, title>>

\* the submission to the pool: the task is queued, or the executor is gone
\* and the except clause runs
LoadingSubmit(th) ==
    /\ th.kind = "trigger" /\ th.pc = "submit"
    /\ IF svc.executor
       THEN /\ tasks' = Append(Supersede(tasks),
                               NewTask(th.text,
                                       [prefix |-> svc.current_prefix,
                                        region |-> svc.current_region_original,
                                        suffix |-> svc.current_suffix]))
            /\ submitted' = submitted + 1
            /\ UNCHANGED <<svc, call>>
       ELSE /\ svc' = submission_failed(svc)
            /\ call' = stop_loading_if_running(svc, call)
            /\ UNCHANGED <<tasks, submitted>>
    /\ threads' = Finish(th)
    /\ clear_handled' = FALSE
    /\ UNCHANGED <<kb, control, foreground, clipboard, title>>

\* a worker: cleanup_paragraph returns or raises and the done-callback hides
\* the indicator before it stores the candidates
LoadingTaskDone(i) ==
    /\ i <= max_workers
    /\ tasks[i].pc = "run"
    /\ \E result \in Results(tasks[i].payload) : TaskDoneWith(i, result)
    /\ call' = stop_loading_if_running(svc, call)
    /\ UNCHANGED <<kb, control, foreground, clipboard, title, threads, submitted, clear_handled>>

\* the steps of the background threads, and of the pool's workers
LoadingThreadStep ==
    \E th \in BagToSet(threads) :
      \/ TriggerCheck(th)
      \/ LoadingCapture(th)
      \/ LoadingFallback(th)
      \/ LoadingSubmit(th)
      \/ ClearSaved(th)

LoadingWorkerStep ==
    \E i \in 1..Len(tasks) :
      \/ LoadingTaskDone(i)
      \/ TaskShow(i)
      \/ TaskWritten(i)

NextLoading ==
    \/ Start
    \/ Stop
    \/ \E e \in LoadingEvents : KeyEvent(e)
    \/ LoadingThreadStep
    \/ LoadingWorkerStep

\* the positions a background thread can stand at
LoadingPcs == {"check", "capture", "fallback", "submit", "clear"}

\* the next step of a thread that stands at pc
LoadingThreadAt(pc) ==
    \E th \in BagToSet(threads) :
      /\ th.pc = pc
      /\ \/ TriggerCheck(th)
         \/ LoadingCapture(th)
         \/ LoadingFallback(th)
         \/ LoadingSubmit(th)
         \/ ClearSaved(th)

\* every started thread runs to its end, whatever threads are started
\* after it, and the pool runs every submitted task
SpecLoading ==
    /\ InitLoading
    /\ [][NextLoading]_vars
    /\ \A pc \in LoadingPcs : WF_vars(LoadingThreadAt(pc))
    /\ WF_vars(LoadingWorkerStep)

\* ------------------------------------------------------------- lifecycle
\* start() and stop() called from other threads (the tray icon, the settings
\* window, main). call holds the holder of the orchestrator lock ("" when it
\* is free) and the number of subscriptions the keyboard library holds.

\* start(), its lock section: [svc, on_press]; on_press is whether
\* keyboard.on_press registered a hook
start(s) ==
    IF s.running THEN [svc |-> s, on_press |-> FALSE]
    ELSE [svc |-> [s EXCEPT !.running = TRUE, !.executor = TRUE, !.keyboard_hook = TRUE],
          on_press |-> TRUE]

\* stop() keeping the lock while it waits for the pool
shutdown_inside_lock(lock, thread) == lock

\* the end of a with self._lock block of the thread
release(lock, thread) == IF lock = thread THEN "" ELSE lock

LockFree == call.lock = ""

LifecycleEvents ==
    {[name |-> "a", held |-> {}],
     [name |-> "space", held |-> {"ctrl"}]}

InitLifecycle ==
    /\ svc = AutoCorrectService(DefaultTrigger, DefaultClearTrigger, DefaultDictationTrigger,
                               <<>>)
    /\ kb = KeystrokeBuffer(max_buffer_size)
    /\ control \in InitialControls
    /\ foreground = 1
    /\ threads = EmptyBag
    /\ tasks = <<>>
    /\ submitted = 0
    /\ clear_handled = FALSE
    /\ clipboard = EmptyClipboard
    /\ title = <<>>
    /\ call = [op |-> "none", lock |-> "", hooks |-> 0]

LifecycleFrame == UNCHANGED <<kb, control, foreground, clipboard, title, tasks, submitted, clear_handled>>

\* another thread calls start() or stop()
CallStart ==
    /\ Live("start") = {}
    /\ threads' = threads (+) SetToBag({NewThread("start", "call", 0)})
    /\ UNCHANGED <<svc, call>>
    /\ LifecycleFrame

CallStop ==
    /\ Live("stop") = {}
    /\ threads' = threads (+) SetToBag({NewThread("stop", "call", 0)})
    /\ UNCHANGED <<svc, call>>
    /\ LifecycleFrame

\* start(): the whole lock section
StartLocked(th) ==
    /\ th.kind = "start"
    /\ LockFree
    /\ \E out \in {start(svc)} :
         /\ svc' = out.svc
         /\ call' = [op |-> "start", lock |-> "",
                     hooks |-> IF out.on_press THEN call.hooks + 1 ELSE call.hooks]
    /\ threads' = Finish(th)
    /\ LifecycleFrame

\* stop(): dictation is stopped, the lock is taken and the lock section runs
StopLocked(th) ==
    /\ th.kind = "stop" /\ th.pc = "call"
    /\ LockFree
    /\ svc' = stop([svc EXCEPT !.is_listening = FALSE])
    /\ call' = [op |-> "stop", lock |-> "stop",
                hooks |-> IF svc.running /\ svc.keyboard_hook THEN call.hooks - 1
                          ELSE call.hooks]
    /\ threads' = Become(th, [th EXCEPT !.pc = "locked", !.ok = svc.running /\ svc.executor])
    /\ LifecycleFrame

\* stop() leaves the lock section: it returns, or goes on to shut the
\* executor down
StopRelease(th) ==
    /\ th.kind = "stop" /\ th.pc = "locked"
    /\ call' = [call EXCEPT !.lock = release(call.lock, "stop")]
    /\ threads' = IF th.ok THEN Become(th, [th EXCEPT !.pc = "shutdown"]) ELSE Finish(th)
    /\ UNCHANGED svc
    /\ LifecycleFrame

\* executor.shutdown(wait=True, cancel_futures=False) returns when the
\* pool's tasks and their done-callbacks have finished
StopShutdown(th) ==
    /\ th.kind = "stop" /\ th.pc = "shutdown"
    /\ tasks = <<>>
    /\ threads' = Finish(th)
    /\ UNCHANGED <<svc, call>>
    /\ LifecycleFrame

\* the steps of the caller of start(), and of the caller of stop()
LifecycleStartStep == \E th \in BagToSet(threads) : StartLocked(th)

LifecycleStopStep ==
    \E th \in BagToSet(threads) :
      \/ StopLocked(th)
      \/ StopRelease(th)
      \/ StopShutdown(th)

\* the trigger threads; the lock section of _trigger_correction needs the lock
LifecycleThreadStep ==
    \E th \in BagToSet(threads) :
      \/ LockFree /\ TriggerCheck(th)
      \/ TriggerCapture(th)
      \/ TriggerFallback(th)

\* the pool's workers; the done-callback stores its result under the lock
LifecycleWorkerStep ==
    \E i \in 1..Len(tasks) :
      \/ LockFree /\ TaskDone(i)
      \/ TaskShow(i)
      \/ TaskWritten(i)

NextLifecycle ==
    \/ CallStart
    \/ CallStop
    \/ \E e \in LifecycleEvents : LockFree /\ KeyEvent(e)
    \/ LifecycleStartStep
    \/ LifecycleStopStep
    \/ LifecycleThreadStep
    \/ LifecycleWorkerStep

\* every thread that can take a step gets to take it
SpecLifecycle ==
    /\ InitLifecycle
    /\ [][NextLifecycle]_vars
    /\ WF_vars(LifecycleStartStep)
    /\ WF_vars(LifecycleStopStep)
    /\ WF_vars(LifecycleThreadStep)
    /\ WF_vars(LifecycleWorkerStep)

\* ---------------------------------------------------- synthetic keystrokes
\* The bridge's _send_keystroke injects key events that the global hook
\* delivers to _on_key_event like any other. call is the last injected
\* key-down event with what the callback did with it.

\* the key-down events of Ctrl+A, Ctrl+C (a read) and Ctrl+A, Ctrl+V (a write)
ReadKeystrokes ==
    {[name |-> "a", held |-> {"ctrl"}],
     [name |-> "c", held |-> {"ctrl"}]}

WriteKeystrokes ==
    {[name |-> "a", held |-> {"ctrl"}],
     [name |-> "v", held |-> {"ctrl"}]}

SyntheticUserEvents ==
    {[name |-> "a", held |-> {}],
     [name |-> "space", held |-> {"ctrl"}]}

\* the keystrokes a thread or a task may be injecting: a trigger thread in
\* select_all_text (dir 0) or in the clipboard tier of get_active_text
\* (dir 1), and a candidate write of a done-callback in
\* _set_text_via_clipboard
Injecting ==
    {ReadKeystrokes : th \in {t \in BagToSet(threads) : t.kind = "trigger" /\ t.pc = "fallback"}}
    \cup {WriteKeystrokes : i \in {j \in 1..Len(tasks) : tasks[j].pc = "write"}}

\* _send_keystroke: the hook delivers the injected key-down to _on_key_event
SendKeystroke ==
    /\ \E keystrokes \in Injecting : \E e \in keystrokes :
       \E tick \in TicksFor(kb, foreground) :
       \E out \in {on_key_event(svc, kb, foreground, tick, e, TRUE)} :
         /\ out.spawn.kind = "free"
         /\ out.kb.buffers # kb.buffers => Len(buf_get(kb.buffers, foreground)) < MaxLen
         /\ svc' = out.svc
         /\ kb' = out.kb
         /\ call' = [op |-> "keybd_event", event |-> e,
                     suppress_events |-> svc.suppress_events,
                     buffered |-> out.kb.buffers # kb.buffers,
                     accepted |-> svc.in_selection_mode /\ ~out.svc.in_selection_mode]
    /\ UNCHANGED <<control, foreground, clipboard, title, threads, tasks, submitted, clear_handled>>

\* the fallback read leaves _suspend_events after select_all_text returned
\* True and goes on to get_active_text
FallbackLeaveSuspend(th) ==
    /\ th.kind = "trigger" /\ th.pc = "fallback" /\ th.dir = 0 /\ th.ok
    /\ svc' = [svc EXCEPT !.suppress_events = FALSE]
    /\ threads' = Become(th, [th EXCEPT !.dir = 1])
    /\ UNCHANGED <<kb, control, foreground, clipboard, title, call, tasks, submitted, clear_handled>>

NextSynthetic ==
    \/ Start
    \/ \E e \in SyntheticUserEvents : KeyEvent(e)
    \/ SendKeystroke
    \/ \E th \in BagToSet(threads) :
         \/ TriggerCheck(th)
         \/ TriggerCapture(th)
         \/ FallbackLeaveSuspend(th)
         \/ (th.dir = 1 \/ ~th.ok) /\ TriggerFallback(th)
    \/ \E i \in 1..Len(tasks) :
         \/ TaskDone(i)
         \/ TaskShow(i)
         \/ TaskWritten(i)

SpecSynthetic == Init /\ [][NextSynthetic]_vars

\* --------------------------------------------------------- failed batches
\* The worker's result is what cleanup_paragraph returns for the batch:
\* the surviving versions, or the text itself when no provider call of the
\* batch produced one. call also records which batch the done-callback saw.

\* the results of a batch whose provider calls all failed, of one with two
\* versions, and of an engine whose candidates are all blank
BatchResults(payload) ==
    {[exc |-> FALSE, list |-> returned(<<>>, payload), batch |-> "failed"],
     [exc |-> FALSE, list |-> returned(<<X, Y>>, payload), batch |-> "versions"],
     [exc |-> FALSE, list |-> << <<" ">>, <<>> >>, batch |-> "blank"]}

BatchTaskDone(i) ==
    /\ i <= max_workers
    /\ tasks[i].pc = "run"
    /\ \E result \in BatchResults(tasks[i].payload) :
         /\ TaskDoneWith(i, result)
         /\ call' = [op |-> stop_loading_if_running(svc, call).op, batch |-> result.batch]
    /\ UNCHANGED <<kb, control, foreground, clipboard, title, threads, submitted, clear_handled>>

NextBatch ==
    \/ Start
    \/ \E e \in LoadingEvents : KeyEvent(e)
    \/ LoadingThreadStep
    \/ \E i \in 1..Len(tasks) :
         \/ BatchTaskDone(i)
         \/ TaskShow(i)
         \/ TaskWritten(i)

SpecBatch == InitLoading /\ [][NextBatch]_vars

\* ===================================================================
\* Reading the foreground control (text_buffer.py): select_all_text and
\* get_active_text with its tiers

\* Ctrl+A, Ctrl+C sent with _send_keystroke: when the keystrokes reach the
\* control and it holds text, the control's copy replaces whatever the
\* clipboard held; an empty selection copies nothing
copy_keystrokes(d, env) ==
    IF env.keys /\ d.control # <<>>
    THEN [d EXCEPT !.clipboard = [format |-> "text", text |-> d.control]]
    ELSE d

\* select_all_text: Ctrl+A then Ctrl+C; False only without the win32 modules
select_all_text(d, env) ==
    IF ~env.win32 THEN [d EXCEPT !.ok = FALSE]
    ELSE [copy_keystrokes(d, env) EXCEPT !.ok = TRUE]

\* _looks_like_window_title: one of the title patterns occurs in the text
\* (the pattern words are single elements of a modelled text)
looks_like_window_title(text) ==
    \E i \in 1..Len(text) : text[i] \in {" - Notepad", " - Word", "Untitled"}

\* the test applied to every tier's result: text, not blank, not a title
usable(text) ==
    /\ text # <<>>
    /\ strip(text[1]) # <<>>
    /\ ~looks_like_window_title(text[1])

\* _get_text_via_pywinauto: the first Edit control with text, else the
\* window's own text; None when UI Automation cannot connect
get_text_via_pywinauto(d, env) ==
    IF ~env.uia THEN <<>>
    ELSE IF strip(d.control) # <<>> THEN <<d.control>>
    ELSE IF strip(d.title) # <<>> THEN <<d.title>>
    ELSE <<>>

\* _get_text_via_win32: WM_GETTEXT of the foreground window (its title),
\* then of the focused child control
get_text_via_win32(d, env) ==
    IF env.main /\ strip(d.title) # <<>> THEN <<d.title>>
    ELSE IF env.focus # "none" /\ strip(d.control) # <<>> THEN <<d.control>>
    ELSE <<>>

\* _get_text_via_clipboard: [desktop, text]; the clipboard is put back only
\* when a text could be read from it beforehand
get_text_via_clipboard(d, env) ==
    LET original_clipboard == get_clipboard_text(d.clipboard, env.readable)
        copied == copy_keystrokes(d, env)
        text == get_clipboard_text(copied.clipboard, env.readable)
        restored == IF original_clipboard # <<>>
                    THEN set_clipboard_text(copied.clipboard, original_clipboard[1],
                                            env.restore).clipboard
                    ELSE copied.clipboard
    IN  [desktop |-> [copied EXCEPT !.clipboard = restored],
         text |-> IF text # <<>> /\ text[1] # <<>> /\ text # original_clipboard
                  THEN text ELSE <<>>]

\* _try_get_text_multiple_methods: [desktop, text, tier]
try_get_text_multiple_methods(d, env) ==
    LET by_uia == get_text_via_pywinauto(d, env)
        by_win32 == get_text_via_win32(d, env)
        by_clipboard == get_text_via_clipboard(d, env)
    IN  IF usable(by_uia) THEN [desktop |-> d, text |-> by_uia, tier |-> "uiautomation"]
        ELSE IF usable(by_win32) THEN [desktop |-> d, text |-> by_win32, tier |-> "win32"]
        ELSE [desktop |-> by_clipboard.desktop,
              text |-> IF usable(by_clipboard.text) THEN by_clipboard.text ELSE <<>>,
              tier |-> "copy"]

\* get_active_text: the clipboard select_all_text filled, else the tiers
get_active_text(d, env) ==
    LET text == get_clipboard_text(d.clipboard, env.readable)
    IN  IF ~env.win32 THEN [desktop |-> d, text |-> <<>>, tier |-> "none"]
        ELSE IF usable(text) THEN [desktop |-> d, text |-> text, tier |-> "clipboard"]
        ELSE try_get_text_multiple_methods(d, env)

\* STEP 1 of _trigger_correction: the shadow buffer when it is not blank,
\* else select_all_text followed by get_active_text:
\* [desktop, text, tier, read]
read_at_trigger(buffer_text, d, env) ==
    LET selected == select_all_text(d, env)
        got == get_active_text(selected, env)
    IN  IF strip(buffer_text) # <<>>
        THEN [desktop |-> d, text |-> <<buffer_text>>, tier |-> "buffer", read |-> FALSE]
        ELSE IF ~selected.ok
        THEN [desktop |-> selected, text |-> <<>>, tier |-> "none", read |-> TRUE]
        ELSE [desktop |-> got.desktop, text |-> got.text, tier |-> got.tier,
              read |-> TRUE]

ReadBuffers == {<<>>, <<" ">>, <<"b">>}

\* a desktop as in InitBridge, the shadow buffer of the focused window
\* blank or not
InitRead ==
    /\ svc = AutoCorrectService(DefaultTrigger, DefaultClearTrigger, DefaultDictationTrigger,
                               <<>>)
    /\ \E text \in ReadBuffers :
         kb = set_buffer(KeystrokeBuffer(max_buffer_size), 1,
                         [focus |-> TRUE, cleanup |-> TRUE], text)
    /\ control \in {<<>>, <<"b">>}
    /\ foreground = 1
    /\ threads = EmptyBag
    /\ tasks = <<>>
    /\ submitted = 0
    /\ clear_handled = FALSE
    /\ clipboard \in BridgeClipboards
    /\ title \in {<<>>, <<"w">>}
    /\ call = NoCall

\* the trigger thread reads the text to correct
ReadAtTrigger ==
    \E env \in Environments, tick \in TicksFor(kb, foreground) :
      \E buffer_text \in {get_buffer(kb, foreground, tick)},
         out \in {read_at_trigger(get_buffer(kb, foreground, tick),
                                  Desktop(control, clipboard, title, FALSE), env)} :
          /\ kb' = update_current_window(kb, foreground, tick)
          /\ clipboard' = out.desktop.clipboard
          /\ call' = [op |-> "read", read |-> out.read, tier |-> out.tier,
                      text |-> out.text, buffer_text |-> buffer_text,
                      clipboard_before |-> clipboard]
          /\ UNCHANGED <<svc, control, foreground, threads, tasks, submitted,
                         clear_handled, title>>

NextRead == ReadAtTrigger \/ Copy

SpecRead == InitRead /\ [][NextRead]_vars

\* ===================================================================
\* Navigation against the key callback: _show_candidate statement by
\* statement. The navigation thread holds no lock after _navigate_candidates
\* released it, so the hook thread's _on_key_event can run between the
\* candidate check of _show_candidate and its entry into _suspend_events

NavigationEvents ==
    {[name |-> "esc", held |-> {}],
     [name |-> "space", held |-> {"ctrl"}],
     [name |-> "right", held |-> {"ctrl"}]}

\* _show_candidate: the check of _current_candidates and the preview text
NavCheck(th) ==
    /\ th.kind = "nav" /\ th.pc = "show"
    /\ \E out \in {show_candidate(svc, svc.current_candidate_index)} :
         threads' = IF out.go
                    THEN Become(th, [th EXCEPT !.pc = "suspend", !.text = out.new_text])
                    ELSE Finish(th)
    /\ UNCHANGED <<svc, kb, control, foreground, clipboard, title, call, tasks, submitted,
                   clear_handled>>

\* _show_candidate enters _suspend_events and calls set_active_text
NavSuspend(th) ==
    /\ th.kind = "nav" /\ th.pc = "suspend"
    /\ svc' = [svc EXCEPT !.suppress_events = TRUE]
    /\ threads' = Become(th, [th EXCEPT !.pc = "write"])
    /\ UNCHANGED <<kb, control, foreground, clipboard, title, call, tasks, submitted,
                   clear_handled>>

NextNavigation ==
    \/ Start
    \/ \E e \in NavigationEvents : KeyEvent(e)
    \/ \E th \in BagToSet(threads) :
         \/ TriggerCheck(th)
         \/ TriggerCapture(th)
         \/ TriggerFallback(th)
         \/ Navigate(th)
         \/ NavCheck(th)
         \/ NavSuspend(th)
         \/ NavWritten(th)
    \/ \E i \in 1..Len(tasks) :
         \/ TaskDone(i)
         \/ TaskShow(i)
         \/ TaskWritten(i)

SpecNavigation == Init /\ [][NextNavigation]_vars

\* ===================================================================
\* Dispatch of a key event to one of the three triggers, for configured
\* combos that differ only in their modifiers

DispatchCombos ==
    {<<"ctrl", "space">>, <<"ctrl", "shift", "space">>, <<"ctrl", "alt", "space">>}

\* space pressed with ctrl and any of the other modifiers held
DispatchEvents ==
    {[name |-> "space", held |-> {"ctrl"} \cup h] : h \in SUBSET {"shift", "alt"}}

\* main() constructs the service from a configuration with three
\* pairwise-different combos
InitDispatch ==
    /\ \E config \in [trigger_key : DispatchCombos,
                      clear_buffer_trigger_key : DispatchCombos,
                      dictation_trigger_key : DispatchCombos] :
         /\ config.trigger_key # config.clear_buffer_trigger_key
         /\ config.trigger_key # config.dictation_trigger_key
         /\ config.clear_buffer_trigger_key # config.dictation_trigger_key
         /\ \E t \in {main_triggers(config)} :
              svc = AutoCorrectService(t.trigger_key, t.clear_buffer_trigger_key,
                                       t.dictation_trigger_key, <<>>)
    /\ kb = KeystrokeBuffer(max_buffer_size)
    /\ control = <<" ", "b", " ">>
    /\ foreground = 1
    /\ threads = EmptyBag
    /\ tasks = <<>>
    /\ submitted = 0
    /\ clear_handled = FALSE
    /\ clipboard = EmptyClipboard
    /\ title = <<>>
    /\ call = NoCall

\* the hook delivers the event to _on_key_event, which starts at most one
\* thread for it; call keeps the event, the thread started and the flags
\* the orchestrator had
Dispatch(e) ==
    /\ svc.keyboard_hook
    /\ \E tick \in TicksFor(kb, foreground) :
       \E out \in {on_key_event(svc, kb, foreground, tick, e, TRUE)} :
         /\ out.spawn.kind # "free" => BagCardinality(threads) < MaxThreads
         /\ out.spawn.kind = "trigger" => submitted + CountLive("trigger") < MaxSubmit
         /\ Len(app_key(control, e)) > Len(control) => Len(control) < MaxLen
         /\ svc' = out.svc
         /\ kb' = out.kb
         /\ threads' = IF out.spawn.kind = "free" THEN threads
                       ELSE threads (+) SetToBag({out.spawn})
         /\ control' = IF out.suppressed THEN control ELSE app_key(control, e)
         /\ clear_handled' = (clear_handled /\ out.spawn.kind # "trigger")
         /\ call' = [op |-> "key", event |-> e, spawn |-> out.spawn.kind,
                     pending |-> svc.pending_correction,
                     selecting |-> svc.in_selection_mode,
                     suppress_events |-> svc.suppress_events]
    /\ UNCHANGED <<foreground, clipboard, title, submitted, tasks>>

NextDispatch ==
    \/ Start
    \/ \E e \in DispatchEvents : Dispatch(e)
    \/ \E th \in BagToSet(threads) :
         \/ TriggerCheck(th)
         \/ TriggerCapture(th)
         \/ TriggerFallback(th)
         \/ ClearSaved(th)
         \/ ToggleDictation(th)
    \/ \E i \in 1..Len(tasks) :
         \/ TaskDone(i)
         \/ TaskShow(i)
         \/ TaskWritten(i)

SpecDispatch == InitDispatch /\ [][NextDispatch]_vars

\* ===================================================================
\* The orchestrator's states, and what the claims speak of
Pending == svc.pending_correction

Selecting == svc.in_selection_mode

Idle == ~svc.pending_correction /\ ~svc.in_selection_mode

\* the requests in flight: submitted, result not yet handled
InFlight == {i \in 1..Len(tasks) : tasks[i].pc = "run"}

\* the shadow buffer of the focused window
ShadowBuffer == buf_get(kb.buffers, foreground)

LiveThreads == BagToSet(threads)

\* the whitespace a region starts and ends with
LeadingWs(r) ==
    SubSeq(r, 1, CHOOSE n \in 0..Len(r) :
                   /\ \A k \in 1..n : r[k] \in Whitespace
                   /\ n < Len(r) => r[n + 1] \notin Whitespace)

TrailingWs(r) ==
    SubSeq(r, 1 + (CHOOSE n \in 0..Len(r) :
                     /\ \A k \in (n + 1)..Len(r) : r[k] \in Whitespace
                     /\ n > 0 => r[n] \notin Whitespace), Len(r))

\* prefix + candidate in the region's own whitespace + suffix
Wrapped(prefix, region, candidate, suffix) ==
    prefix \o LeadingWs(region) \o candidate \o TrailingWs(region) \o suffix

\* the session state the clear-buffer trigger and an acceptance leave behind
TrackingCleared ==
    /\ svc.current_candidates = <<>>
    /\ svc.current_candidate_index = 0
    /\ svc.current_prefix = <<>>
    /\ svc.current_suffix = <<>>
    /\ svc.current_region_original = <<>>
    /\ svc.last_preview_text = <<>>

\* the keys of the claims about Selecting
IsConfiguredTrigger(e) ==
    \/ is_trigger_pressed(e, svc.trigger_key)
    \/ is_trigger_pressed(e, svc.clear_buffer_trigger_key)
    \/ is_trigger_pressed(e, svc.dictation_trigger_key)

IsCtrlNav(e) == e.name \in {"left", "right"} /\ "ctrl" \in e.held

IsPureModifier(e) == e.name \in modifier_keys

IsOtherKey(e) == ~IsConfiguredTrigger(e) /\ ~IsCtrlNav(e) /\ ~IsPureModifier(e)

\* -------------------------------------------------------------------
\* C1: in every reachable state at most one correction request is in
\* flight, i.e. at most one task submitted to the worker pool whose result
\* _store_and_show_candidates has not handled yet.
C1_AtMostOneInFlight == Cardinality(InFlight) <= 1

\* -------------------------------------------------------------------
\* C2: the result of a request whose session was superseded while it was in
\* flight is discarded: handling it does not put the orchestrator into
\* Selecting, does not write to the foreground control and does not change
\* the shadow buffer.
C2_LateResultDiscarded ==
    [][\A i \in 1..Len(tasks) :
         (tasks[i].superseded /\ (TaskDone(i) \/ TaskShow(i) \/ TaskWritten(i)))
           => /\ svc'.in_selection_mode => svc.in_selection_mode
              /\ control' = control
              /\ ShadowBuffer' = ShadowBuffer]_vars

C4_CandidatesDisplayed ==
    [][\A i \in 1..Len(tasks) :
         /\ \A result \in Results(tasks[i].payload) :
              ( /\ Pending /\ ~tasks[i].superseded /\ tasks[i].pc = "run"
                /\ ~result.exc
                /\ \E k \in 1..Len(result.list) : strip(result.list[k]) # <<>>
                /\ TaskDoneWith(i, result) )
              => /\ svc'.in_selection_mode /\ ~svc'.pending_correction
                 /\ svc'.current_candidate_index = 0
                 /\ svc'.current_candidates # <<>>
                 /\ tasks'[i].pc = "show"
         /\ ( /\ ~tasks[i].superseded /\ Selecting /\ svc.current_candidates # <<>>
              /\ TaskShow(i) )
              => /\ Len(tasks') = Len(tasks)
                 /\ tasks'[i].pc = "write"
                 /\ tasks'[i].text = Wrapped(tasks[i].request.prefix,
                                             tasks[i].request.region,
                                             svc.current_candidates[1],
                                             tasks[i].request.suffix)
         /\ TaskWritten(i)
              => \/ control' = tasks[i].text /\ ShadowBuffer' = tasks[i].text
                 \/ control' = control /\ ShadowBuffer' = ShadowBuffer]_vars

\* -------------------------------------------------------------------
\* C5: in Selecting with n candidates a navigation of direction d sets the
\* index to (index + d) mod n, +1 from the last wrapping to 0 and -1 from 0
\* to the last, and goes on to redisplay the candidate at the index; the
\* index is within 0..n-1 in every reachable state.
C5_IndexInRange ==
    svc.current_candidates # <<>>
      => svc.current_candidate_index \in 0..(Len(svc.current_candidates) - 1)

C5_CyclicNavigation ==
    /\ []C5_IndexInRange
    /\ [][\A th \in LiveThreads :
            LET n == Len(svc.current_candidates)
                idx == svc.current_candidate_index
            IN
            /\ (Selecting /\ n > 0 /\ Navigate(th))
                 => /\ svc'.current_candidate_index =
                         IF th.dir = 1 THEN (IF idx = n - 1 THEN 0 ELSE idx + 1)
                         ELSE (IF idx = 0 THEN n - 1 ELSE idx - 1)
                    /\ svc'.current_candidates = svc.current_candidates
                    /\ svc'.in_selection_mode
                    /\ threads' = Become(th, [th EXCEPT !.pc = "show"])
            /\ (n > 0 /\ NavShow(th))
                 => /\ svc'.suppress_events
                    /\ \E w \in LiveThreads' :
                         /\ w.pc = "write"
                         /\ w.text = Wrapped(svc.current_prefix,
                                             svc.current_region_original,
                                             svc.current_candidates[idx + 1],
                                             svc.current_suffix)
            /\ NavWritten(th)
                 => \/ control' = th.text /\ ShadowBuffer' = th.text
                    \/ control' = control /\ ShadowBuffer' = ShadowBuffer]_vars

\* the second of two candidates has been navigated to and is displayed
C5_SecondCandidateShown ==
    /\ Selecting
    /\ Len(svc.current_candidates) = 2
    /\ svc.current_candidate_index = 1
    /\ LiveThreads = {}
    /\ control = Wrapped(svc.current_prefix, svc.current_region_original,
                         svc.current_candidates[2], svc.current_suffix)
    /\ svc.last_preview_text = control
    /\ ShadowBuffer = control

\* -------------------------------------------------------------------
\* C6: in Selecting a key that is neither a configured trigger nor
\* Ctrl+Left/Right nor a pure modifier accepts the current candidate, moves
\* the orchestrator to Idle and reaches the application; a pure modifier
\* leaves the orchestrator in Selecting with the same candidate.
C6_OtherKeyAccepts ==
    [][\A e \in Events :
         (Selecting /\ svc.current_candidates # <<>> /\ KeyEvent(e))
           => /\ IsOtherKey(e)
                   => /\ ~svc'.in_selection_mode /\ ~svc'.pending_correction
                      /\ svc'.current_candidates = <<>>
                      /\ svc'.baseline_text # <<>>
                      /\ control' = app_key(control, e)
              /\ IsPureModifier(e) => svc' = svc]_vars

\* -------------------------------------------------------------------
\* C7: accepting a candidate while Selecting sets the baseline to the text
\* currently displayed in the control, clears the region tracking, empties
\* the shadow buffer and leaves the orchestrator Idle, also after a failed
\* display write.
C7_AcceptSetsBaselineToDisplayed ==
    [][\A e \in Events :
         ( /\ Selecting /\ svc.current_candidates # <<>> /\ ~svc.suppress_events
           /\ IsOtherKey(e)
           /\ KeyEvent(e) )
           => /\ svc'.baseline_text = control
              /\ TrackingCleared'
              /\ ShadowBuffer' = <<>>
              /\ Idle']_vars

\* -------------------------------------------------------------------
\* C8: with an accepted baseline in force, a correction trigger sends the
\* engine the trimmed part of the captured text that follows the baseline
\* when the captured text starts with the baseline, and the trimmed whole
\* captured text otherwise.
NotCovered(baseline, captured) ==
    IF Len(baseline) <= Len(captured) /\ SubSeq(captured, 1, Len(baseline)) = baseline
    THEN SubSeq(captured, Len(baseline) + 1, Len(captured))
    ELSE captured

C8_OnlyDeltaSent ==
    [][\A th \in LiveThreads :
         ( /\ svc.baseline_text # <<>>
           /\ submitted' = submitted + 1
           /\ TriggerCapture(th) \/ TriggerFallback(th) )
           => /\ Len(tasks') = Len(tasks) + 1
              /\ \E captured \in
                     IF th.pc = "fallback" THEN {control}
                     ELSE {get_buffer(kb, foreground, tick) : tick \in Ticks} :
                   tasks'[Len(tasks')].payload =
                     strip(NotCovered(svc.baseline_text, captured))]_vars

\* a request for the text typed after an acceptance is in flight
C8_DeltaInFlight ==
    /\ svc.baseline_text # <<>>
    /\ control = svc.baseline_text \o <<"a">>
    /\ svc.current_prefix = svc.baseline_text
    /\ svc.current_region_original = <<"a">>
    /\ Pending
    /\ submitted = 2
    /\ Len(tasks) = 1
    /\ tasks[1].pc = "run" /\ tasks[1].payload = <<"a">>

\* -------------------------------------------------------------------
\* C9: handling the clear-buffer trigger leaves the orchestrator Idle with
\* an empty baseline and accumulator, no candidates, empty region tracking
\* and an empty shadow buffer, and the orchestrator stays Idle and empty
\* until the next correction trigger.
C9_ClearedUntilNextTrigger ==
    /\ [][\A th \in LiveThreads : ClearSaved(th) => ShadowBuffer' = <<>>]_vars
    /\ [](clear_handled
            => /\ Idle
               /\ svc.baseline_text = <<>>
               /\ svc.accepted_text_accumulator = <<>>
               /\ TrackingCleared)

\* -------------------------------------------------------------------
\* C10: a correction trigger pressed in Selecting accepts the current
\* candidate and starts a new request: served by the bridge, its thread
\* ends having submitted exactly one task, with the orchestrator Pending.
C10_TriggerInSelectingStartsRequest ==
    [][\A th \in LiveThreads :
         ( /\ th.kind = "trigger" /\ th.accepted
           /\ ~(th.pc = "fallback" /\ ~th.ok)
           /\ TriggerCheck(th) \/ TriggerCapture(th) \/ TriggerFallback(th)
           /\ threads' = Finish(th) )
           => /\ submitted' = submitted + 1
              /\ Len(tasks') = Len(tasks) + 1
              /\ svc'.pending_correction]_vars



\* -------------------------------------------------------------------
\* C11: a key-down event is suppressed only if it matches a configured
\* trigger, or the orchestrator is Selecting and the key is not a pure
\* modifier; in Idle a key that matches no configured trigger is not
\* suppressed and leaves the pending flag, the selection flag, the
\* candidates and the baseline as they were.
C11_SuppressOnlyTriggersOrSelecting ==
    \A e \in Events, tick \in TicksFor(kb, foreground), start_ok \in BOOLEAN :
        LET out == on_key_event(svc, kb, foreground, tick, e, start_ok)
        IN  /\ out.suppressed =>
                 \/ IsConfiguredTrigger(e)
                 \/ Selecting /\ ~IsPureModifier(e)
            /\ Idle /\ ~IsConfiguredTrigger(e) =>
                 /\ ~out.suppressed
                 /\ out.svc.pending_correction = svc.pending_correction
                 /\ out.svc.in_selection_mode = svc.in_selection_mode
                 /\ out.svc.current_candidates = svc.current_candidates
                 /\ out.svc.current_candidate_index = svc.current_candidate_index
                 /\ out.svc.baseline_text = svc.baseline_text

\* the hook is live and Idle after a session (a baseline is set): the plain
\* key "a" passes and leaves the state alone, the correction trigger is
\* suppressed
C11_PlainKeyAfterSession ==
    LET t == [focus |-> TRUE, cleanup |-> TRUE]
        plain == on_key_event(svc, kb, foreground, t, [name |-> "a", held |-> {}], TRUE)
        trig == on_key_event(svc, kb, foreground, t, [name |-> "space", held |-> {"ctrl"}], TRUE)
    IN  /\ svc.running /\ ~svc.suppress_events
        /\ Idle
        /\ svc.baseline_text # <<>>
        /\ ~plain.suppressed /\ plain.svc = svc
        /\ trig.suppressed

\* what the claim about the dictation trigger compares before and after
C12_Frame ==
    /\ svc'.pending_correction = svc.pending_correction
    /\ svc'.in_selection_mode = svc.in_selection_mode
    /\ svc'.current_candidates = svc.current_candidates
    /\ svc'.current_candidate_index = svc.current_candidate_index
    /\ svc'.baseline_text = svc.baseline_text
    /\ svc'.current_prefix = svc.current_prefix
    /\ svc'.current_suffix = svc.current_suffix
    /\ svc'.current_region_original = svc.current_region_original

\* the key-event thread started one toggle thread and did not toggle itself
C12_ToggleOnOwnThread ==
    /\ threads' = threads (+) SetToBag({NewThread("dictation", "toggle", 0)})
    /\ svc'.is_listening = svc.is_listening

\* -------------------------------------------------------------------
\* C12: handling the dictation trigger, in Idle, Pending or Selecting,
\* leaves the pending flag, the selection flag, the candidates, the
\* candidate index, the baseline and the session's region fields as they
\* were, and the toggle runs on a thread of its own, not on the key-event
\* thread.
\* As stated, for every handling of the trigger:
C12_DictationLeavesCorrectionState ==
    [][KeyEvent(DictationEvent) /\ svc.running /\ ~svc.suppress_events =>
         /\ C12_Frame
         /\ C12_ToggleOnOwnThread]_vars

\* As the code has it: the state is left alone and the toggle thread started,
\* or Thread.start() raised and the except clause of the callback reset the
\* pending and the selection flag.
C12_DictationLeavesStateUnlessStartRaises ==
    [][KeyEvent(DictationEvent) /\ svc.running /\ ~svc.suppress_events =>
         \/ C12_Frame /\ C12_ToggleOnOwnThread
         \/ /\ threads' = threads
            /\ svc' = [svc EXCEPT !.in_selection_mode = FALSE,
                                  !.pending_correction = FALSE]]_vars

\* the trigger was handled: a toggle thread is live while the orchestrator is
\* Selecting and still has its candidates
C12_ToggleStartedInSelecting ==
    /\ Selecting
    /\ svc.current_candidates # <<>>
    /\ CountLive("dictation") = 1


\* the step of a key event in whose callback an exception was raised, here
\* by Thread.start() or by _accept_candidate, and caught by the except clause
C13_CallbackRaised(e) ==
    /\ KeyEvent(e)
    /\ \E tick \in TicksFor(kb, foreground) :
         LET out == on_key_event(svc, kb, foreground, tick, e, FALSE)
         IN  out.raised /\ svc' = out.svc /\ threads' = threads

\* -------------------------------------------------------------------
\* C13: when the key-event callback raises, the orchestrator ends Idle
\* (neither Pending nor Selecting) with the session cleared: no candidates
\* and no prefix, suffix or region tracking remain.
C13_RaiseEndsIdleAndCleared ==
    [][(\E e \in Events : C13_CallbackRaised(e)) =>
         /\ ~svc'.pending_correction
         /\ ~svc'.in_selection_mode
         /\ svc'.current_candidates = <<>>
         /\ svc'.current_prefix = <<>>
         /\ svc'.current_suffix = <<>>
         /\ svc'.current_region_original = <<>>]_vars


\* the history collaborator's table and its count of logged failures
Corrections == svc.history_manager[1].corrections

HistoryErrors == svc.history_manager[1].errors

\* -------------------------------------------------------------------
\* C14: a failure of the history collaborator never blocks acceptance: when
\* add_correction fails during an acceptance, the baseline is still set to
\* the displayed text, the shadow buffer is still cleared and the selection
\* is still left, exactly as when no history collaborator is present.
C14_HistoryFailureDoesNotBlock ==
    [][HistoryErrors' > HistoryErrors =>
         LET ref == accept_candidate([svc EXCEPT !.history_manager = <<>>])
             final_text == IF svc.last_preview_text # <<>> THEN svc.last_preview_text
                           ELSE prepare_candidate_preview(
                                    svc, svc.current_candidates[svc.current_candidate_index + 1])
         IN  /\ ref.cleared
             /\ svc'.baseline_text = final_text
             /\ svc'.baseline_text = ref.svc.baseline_text
             /\ svc'.accepted_text_accumulator = ref.svc.accepted_text_accumulator
             /\ ShadowBuffer' = <<>>
             /\ ~svc'.in_selection_mode
             /\ svc'.current_candidates = ref.svc.current_candidates
             /\ svc'.current_candidate_index = ref.svc.current_candidate_index
             /\ svc'.current_prefix = ref.svc.current_prefix
             /\ svc'.current_suffix = ref.svc.current_suffix
             /\ svc'.current_region_original = ref.svc.current_region_original
             /\ svc'.last_preview_text = ref.svc.last_preview_text]_vars

\* a candidate was accepted while the database could not be written: the
\* failure was logged, nothing was recorded, the displayed text is the
\* baseline and the orchestrator is Idle with an empty shadow buffer
C14_AcceptedWithFailedHistory ==
    /\ HistoryErrors = 1
    /\ Corrections = <<>>
    /\ svc.baseline_text = <<" ", "X", " ">>
    /\ control = svc.baseline_text
    /\ ShadowBuffer = <<>>
    /\ Idle

\* -------------------------------------------------------------------
\* C15: with a history collaborator present (and its database writable),
\* every acceptance records exactly one entry: its original is the delta
\* that was sent for correction, its corrected text the candidate displayed
\* in the control at the moment of acceptance, its chosen position that
\* candidate's position in the session's list, its total the number of the
\* session's candidates.
C15_AcceptanceRecorded ==
    [][/\ \E e \in HistoryEvents : KeyEvent(e)
       /\ svc.history_manager[1].db_ok
       /\ Selecting /\ svc.current_candidates # <<>>
       /\ svc'.current_candidates = <<>>
       =>
       /\ Len(Corrections') = Len(Corrections) + 1
       /\ SubSeq(Corrections', 1, Len(Corrections)) = Corrections
       /\ LET row == Corrections'[Len(Corrections')] IN
            /\ row.original = svc.last_requested_region
            /\ control = prepare_candidate_preview(svc, row.corrected)
            /\ row.selected_version \in 1..Len(svc.current_candidates)
            /\ svc.current_candidates[row.selected_version] = row.corrected
            /\ row.total_versions = Len(svc.current_candidates)]_vars


\* -------------------------------------------------------------------
\* C16: whatever the clipboard held before a set_active_text call (text,
\* nothing, or data without a text format), it holds the same after the
\* call, whether the call succeeded or failed.
C16_ClipboardPreserved ==
    call.op = "set_active_text" => clipboard = call.clipboard_before

\* -------------------------------------------------------------------
\* C17: set_active_text tries clipboard paste, UI Automation, the caller's
\* control handle and the native text-set message in this order and stops
\* at the first that succeeds; it returns False only when every strategy
\* failed, and then the text of the foreground control is unchanged.
C17_StrategiesInOrderAndNoPartialWrite ==
    call.op = "set_active_text" =>
      LET order == IF call.has_control THEN Strategies
                   ELSE SelectSeq(Strategies, LAMBDA n : n # "control")
      IN  /\ call.tried = SubSeq(order, 1, Len(call.tried))
          /\ ~call.result => call.tried \in {order, <<>>}
          /\ ~call.result => control = call.control_before

\* ------------------------------------------------------------------
\* C18: set_trigger_key, set_clear_buffer_trigger_key and
\* set_dictation_trigger_key each return False for a value whose canonical
\* form equals either of the other two configured triggers, and after such a
\* rejection all three configured triggers have their prior values.
Setters == {"set_trigger_key", "set_clear_buffer_trigger_key", "set_dictation_trigger_key"}

\* the two triggers a setter does not set, of the triggers before the call
OtherTriggers(op, before) ==
    CASE op = "set_trigger_key" -> {before[2], before[3]}
      [] op = "set_clear_buffer_trigger_key" -> {before[1], before[3]}
      [] op = "set_dictation_trigger_key" -> {before[1], before[2]}

\* the call is a setter's, with a value whose canonical form is another trigger
C18_Collides ==
    /\ call.op \in Setters
    /\ normalize_trigger_key(call.key) # <<>>
    /\ normalize_trigger_key(call.key) \in OtherTriggers(call.op, call.before)

C18_CollidingValueRejected ==
    C18_Collides => ~call.result /\ Triggers(svc) = call.before

C18_CorrectionTriggerRejected ==
    /\ C18_Collides
    /\ call.op = "set_trigger_key"
    /\ ~call.result
    /\ normalize_trigger_key(call.key) = svc.dictation_trigger_key
    /\ svc.trigger_key # svc.dictation_trigger_key

\* ------------------------------------------------------------------
\* C19: in every reachable state, after construction with any trigger
\* arguments and after any sequence of trigger-setter calls, no two of the
\* configured correction, clear-buffer and dictation triggers are equal (a
\* disabled, empty clear-buffer trigger excepted).
C19_TriggersPairwiseDistinct ==
    /\ svc.trigger_key # svc.dictation_trigger_key
    /\ \/ svc.clear_buffer_trigger_key = <<>>
       \/ /\ svc.clear_buffer_trigger_key # svc.trigger_key
          /\ svc.clear_buffer_trigger_key # svc.dictation_trigger_key

\* ------------------------------------------------------------------
\* C20: normalize_trigger_key returns None for every input that contains no
\* non-modifier key, that contains more than one non-modifier key, or that
\* contains any token that is not a recognised modifier, alias or base key.
Parts(raw) ==
    SelectSeq([i \in 1..Len(raw) |-> strip_lower(raw[i])], LAMBDA part : part # "")

IsModifier(part) == get_or_self(modifier_aliases, part) \in {"ctrl", "shift", "alt"}

\* a function key beyond f24 and a letter beyond a..z count as recognised
Recognised(part) ==
    \/ IsModifier(part)
    \/ part \in DOMAIN key_aliases
    \/ part \in allowed_base_keys
    \/ f_and_digits(part)
    \/ part \in OtherLetters

NonModifierKeys(raw) == Len(SelectSeq(Parts(raw), LAMBDA part : ~IsModifier(part)))

C20_MalformedInputGivesNone ==
    (/\ call.op = "normalize_trigger_key"
     /\ \/ NonModifierKeys(call.key) = 0
        \/ NonModifierKeys(call.key) > 1
        \/ \E i \in 1..Len(Parts(call.key)) : ~Recognised(Parts(call.key)[i]))
    => call.value = <<>>

\* ------------------------------------------------------------------
\* C21: normalize_trigger_key is idempotent on every input it accepts:
\* normalising its own output returns that same string, with the modifiers
\* in the order ctrl, shift, alt, each at most once, before the base key.
ModifierRank(m) == CHOOSE i \in 1..Len(modifiers_in_order) : modifiers_in_order[i] = m

Canonical(trigger) ==
    /\ trigger # <<>>
    /\ ~IsModifier(trigger[Len(trigger)])
    /\ \A i \in 1..(Len(trigger) - 1) : trigger[i] \in {"ctrl", "shift", "alt"}
    /\ \A i, j \in 1..(Len(trigger) - 1) :
         i < j => ModifierRank(trigger[i]) < ModifierRank(trigger[j])

C21_NormalizeIdempotent ==
    (call.op = "normalize_trigger_key" /\ call.value # <<>>) =>
      /\ normalize_trigger_key(split_plus(join_plus(call.value), "")) = call.value
      /\ Canonical(call.value)

C21_ReorderedInputNormalized ==
    /\ call.op = "normalize_trigger_key"
    /\ call.key = <<"alt", "shift", "ctrl", "pageup">>
    /\ call.value = <<"ctrl", "shift", "alt", "page up">>

\* ------------------------------------------------------------------
\* C22: cleanup_paragraph never returns an empty list: when every one of the
\* N per-candidate provider calls fails (raises, times out, or yields an
\* empty response), and also when the provider is not configured, it returns
\* exactly one element equal to the original input text.
CleanupReturned == call.op = "cleanup_paragraph" /\ call.pc = "returned"

EveryCandidateFailed ==
    \A i \in 1..Len(call.futures) : call.futures[i].result = <<>>

C22_NeverEmptyList ==
    CleanupReturned =>
      /\ call.result # <<>>
      /\ (~call.is_configured \/ EveryCandidateFailed) => call.result = <<call.text>>

C22_AllThreeFailed ==
    /\ CleanupReturned
    /\ call.is_configured
    /\ Len(call.futures) = 3
    /\ EveryCandidateFailed
    /\ call.result = <<call.text>>

\* ------------------------------------------------------------------
\* C23: for a request of N candidates (clamped to 1..MAX_CANDIDATES) whose
\* provider calls complete in any order, cleanup_paragraph returns the
\* surviving candidates in their original index order regardless of
\* completion order; a failed or empty candidate is omitted without failing
\* the batch, so the result has between 1 and N elements.
Survivors ==
    LET alive == SelectSeq(call.futures, LAMBDA f : f.result # <<>>)
    IN  [k \in 1..Len(alive) |-> alive[k].result[1]]

C23_SurvivorsInIndexOrder ==
    (CleanupReturned /\ call.futures # <<>>) =>
      /\ call.requested_versions \in 1..MAX_CANDIDATES
      /\ call.num_versions \in 1..MAX_CANDIDATES =>
           call.requested_versions = call.num_versions
      /\ Len(call.futures) = call.requested_versions
      /\ Len(call.result) \in 1..call.requested_versions
      /\ Survivors # <<>> => call.result = Survivors

C23_CompletedOutOfOrder ==
    /\ CleanupReturned
    /\ Len(call.futures) = 3
    /\ Len(call.versions_dict) = 2
    /\ call.versions_dict[1].index > call.versions_dict[2].index
    /\ call.result = <<call.versions_dict[2].result, call.versions_dict[1].result>>

\* ------------------------------------------------------------------
\* C24: for the focused window, a key press appends the mapped character
\* (space, enter and tab map to ' ', newline and tab; a single-character key
\* name maps to itself), a backspace removes the last character and is a
\* no-op on an empty buffer, and pure modifiers, navigation keys, function
\* keys and unknown multi-character names leave the buffer unchanged; so
\* typing h,e,l,l,o followed by two backspaces yields 'hel'.
SingleCharacterKeys == {"h", "e", "l", "o"}

C24_KeyPressEditsBuffer ==
    call.op = "on_key_press" =>
      LET before == buf_get(call.before, kb.current_window)
          after == buf_get(kb.buffers, kb.current_window)
          appended(c) == trim_to_cap(Append(before, c), kb.max_buffer_size)
      IN  /\ kb.current_window = foreground
          /\ after = CASE call.key_name = "backspace" ->
                            IF before = <<>> THEN <<>>
                            ELSE SubSeq(before, 1, Len(before) - 1)
                       [] call.key_name = "space" -> appended(" ")
                       [] call.key_name = "enter" -> appended("\n")
                       [] call.key_name = "tab" -> appended("\t")
                       [] call.key_name \in SingleCharacterKeys -> appended(call.key_name)
                       [] OTHER -> before

C24_HelloTwoBackspaces ==
    /\ call.op = "on_key_press"
    /\ call.key_name = "backspace"
    /\ buf_get(call.before, 1) = <<"h", "e", "l", "l">>
    /\ buf_get(kb.buffers, 1) = <<"h", "e", "l">>

\* ------------------------------------------------------------------
\* C25: after any sequence of on_key_press, add_text, set_buffer and
\* clear_buffer calls, every window's buffer has length at most the
\* configured cap, and when appended text overflows the cap the buffer
\* equals exactly the most recent cap characters.
C25_BuffersWithinCap ==
    \A i \in 1..Len(kb.buffers) : Len(kb.buffers[i].text) <= kb.max_buffer_size

\* ------------------------------------------------------------------
\* C26: the shadow buffer keeps at most K tracked windows:
\* cleanup_old_buffers(K) leaves at most K entries for every K >= 1, and the
\* currently focused window's entry is never evicted.
C26_AtMostKWindows ==
    call.op = "cleanup_old_buffers" =>
      /\ Len(kb.buffers) <= call.max_windows
      /\ kb.current_window \notin call.removed

\* ------------------------------------------------------------------
\* C27: eviction is least-recently-used by last touch: the windows removed
\* are those whose buffers were read or written longest ago, so a window
\* created early but typed into recently survives (the focused window, which
\* is always kept, aside).
LastTouch(w) == CHOOSE i \in 1..Len(call.touched) : call.touched[i] = w

C27_EvictsLeastRecentlyTouched ==
    call.op = "cleanup_old_buffers" =>
      \A gone \in call.removed, kept \in Hwnds(kb.buffers) \ {kb.current_window} :
        LastTouch(gone) < LastTouch(kept)

\* ------------------------------------------------------------------
\* C28: window buffers are isolated: a keystroke is recorded in the buffer
\* of the window that is in the foreground at the moment the key is pressed,
\* including the first keystrokes right after a focus change.
C28_KeyRecordedInForegroundWindow ==
    call.op = "on_key_press" => kb.current_window = foreground

\* ------------------------------------------------------------------
\* C29: no typed data is lost across a correction: characters the user
\* types into the foreground control while a request is Pending are still
\* part of the control's text after the first candidate has been displayed.
\* The text a task's request was captured from
Captured(task) == task.request.prefix \o task.request.region \o task.request.suffix

C29_TypedWhilePendingKept ==
    [][\A i \in 1..Len(tasks) :
         LET captured == Captured(tasks[i])
             typed == SubSeq(control, Len(captured) + 1, Len(control))
         IN  (/\ tasks[i].pc = "write"
              /\ tasks' = RemoveAt(tasks, i)
              /\ control' # control
              /\ startswith(control, captured)
              /\ Len(control) > Len(captured))
             => rfind(control', typed) # -1]_vars

\* ------------------------------------------------------------------
\* C30: every start_loading call made for a request is eventually
\* followed by a stop_loading call, whatever the outcome of the request:
\* candidates displayed, all candidates empty, engine exception, failed
\* submission, clear-buffer during the request, or stop() of the service
\* while the request is in flight.
C30_StartLoadingFollowedByStop ==
    (call.op = "start_loading") ~> (call.op = "stop_loading")

\* ------------------------------------------------------------------
\* C31: stop() clears the running flag and removes the hook before it
\* drains the pool, waits for the pool with the lock released and so
\* returns even when a done-callback in flight needs the lock; start()
\* while running and stop() while stopped change nothing, and at most one
\* hook subscription exists at any time.
StopCalls == Live("stop")

C31_StopDrainsAfterUnhookWithoutLock ==
    /\ [](call.hooks = (IF svc.keyboard_hook THEN 1 ELSE 0))
    /\ [](\A th \in StopCalls : th.pc = "shutdown" => call.lock # "stop")
    /\ [][\A th \in StopCalls :
            (th.pc = "locked" /\ threads' = Become(th, [th EXCEPT !.pc = "shutdown"]))
            => (~svc.running /\ ~svc.keyboard_hook /\ call.hooks = 0)]_vars
    /\ [][\A th \in Live("start") :
            (threads' = Finish(th) /\ svc.running)
            => (svc' = svc /\ call'.hooks = call.hooks)]_vars
    /\ [][\A th \in StopCalls :
            (/\ th.pc = "call" /\ ~svc.running
             /\ \E ok \in BOOLEAN :
                  threads' = Become(th, [th EXCEPT !.pc = "locked", !.ok = ok]))
            => (/\ svc' = svc /\ call'.hooks = call.hooks
                /\ threads' = Become(th, [th EXCEPT !.pc = "locked", !.ok = FALSE]))]_vars
    /\ (StopCalls # {}) ~> (StopCalls = {})

\* stop() waits for a pool whose task has not yet run its done-callback
C31_StopWaitsForTaskInFlight ==
    /\ \E th \in StopCalls : th.pc = "shutdown"
    /\ \E i \in 1..Len(tasks) : tasks[i].pc = "run"
    /\ ~svc.running
    /\ call.hooks = 0

\* ------------------------------------------------------------------
\* C32: a correction session (a non-empty candidate list, or non-empty
\* prefix, suffix or region tracking) exists if and only if the
\* orchestrator is Pending or Selecting; whenever it is Idle every session
\* field is empty. The formula is the second half: a session exists only
\* while the orchestrator is Pending or Selecting.
SessionExists ==
    \/ svc.current_candidates # <<>>
    \/ svc.current_prefix # <<>>
    \/ svc.current_suffix # <<>>
    \/ svc.current_region_original # <<>>

C32_NoSessionWhenIdle == SessionExists => (Pending \/ Selecting)

\* ------------------------------------------------------------------
\* C33: whenever the bridge generates a synthetic keystroke (in the
\* fallback read, in a candidate write, also when these overlap) the
\* suppress flag is set, so the key-event callback does not process it:
\* it is not appended to the shadow buffer and accepts no candidate.
C33_SyntheticKeystrokesSuppressed ==
    call.op = "keybd_event"
    => (call.suppress_events /\ ~call.buffered /\ ~call.accepted)

\* ------------------------------------------------------------------
\* C34: when a request yields nothing to show, because every returned
\* candidate is empty or because every provider call of the batch failed,
\* the orchestrator returns to Idle without entering Selecting, writes
\* nothing to the control, leaves the shadow buffer unchanged and clears
\* the loading indicator.
C34_NothingToShowReturnsToIdle ==
    [][\A i \in 1..Len(tasks) :
         (/\ tasks[i].pc = "run"
          /\ call' # call
          /\ IF tasks' = RemoveAt(tasks, i) THEN TRUE
             ELSE Len(tasks') = Len(tasks) /\ tasks'[i].pc = "show"
          /\ call'.batch \in {"failed", "blank"})
         => (/\ Idle'
             /\ tasks' = RemoveAt(tasks, i)
             /\ control' = control
             /\ kb' = kb
             /\ call'.op = "stop_loading")]_vars

\* -------------------------------------------------------------------
\* C35: the read of the foreground control at trigger time (select_all_text
\* followed by get_active_text, used when the shadow buffer is blank) leaves
\* the clipboard with the content it had before the read, on every tier and
\* whether or not a text was read; with a shadow buffer that is not blank
\* the control is not read and the clipboard is not touched.
C35_ReadLeavesClipboard ==
    call.op = "read" =>
        /\ clipboard = call.clipboard_before
        /\ strip(call.buffer_text) # <<>> => ~call.read

\* -------------------------------------------------------------------
\* C36: candidate display writes happen only for the live session while it
\* is Selecting: a write started by a navigation reaches the foreground
\* control and the shadow buffer only while the orchestrator is Selecting,
\* never after the candidate was accepted.
C36_NoDisplayWriteAfterAccept ==
    [][\A th \in BagToSet(threads) :
          (th.kind = "nav" /\ th.pc = "write" /\ threads' = Finish(th)
             /\ (control' # control \/ kb' # kb))
          => Selecting]_vars

C38_NothingSubmittedAfterStop ==
    (call.op = "stop" /\ ~svc.running /\ StopCalls = {})
        => (~svc.executor /\ tasks = <<>>)

\* -------------------------------------------------------------------
\* C39: every character key that reaches the foreground application
\* unsuppressed while the service listens is reflected in the shadow buffer
\* of the focused window: after the key 'a' was appended to the control's
\* text the shadow buffer ends with 'a', also when that key implicitly
\* accepted a candidate and the shadow buffer had just been cleared.
C39_TypedKeyInShadowBuffer ==
    [][(/\ svc.running /\ svc.keyboard_hook /\ ~svc.suppress_events
        /\ control' = Append(control, "a"))
       => (/\ ShadowBuffer' # <<>>
           /\ ShadowBuffer'[Len(ShadowBuffer')] = "a")]_vars

\* the keys an event holds down, and the keys of a trigger
Pressed(e) == e.held \cup {e.name}

Combo(trigger) == {trigger[i] : i \in 1..Len(trigger)}

\* -------------------------------------------------------------------
\* C40: a key event is classified as a trigger exactly when the pressed key
\* and the set of held modifiers equal that trigger's combo, so that with
\* three pairwise-different combos a press starts the thread of a trigger
\* only if it is exactly that trigger's combo, and pressing exactly the
\* correction combo in Idle starts a correction.
C40_TriggerIsExactCombo ==
    call.op = "key" =>
        /\ call.spawn = "trigger" => Pressed(call.event) = Combo(svc.trigger_key)
        /\ call.spawn = "clear" => Pressed(call.event) = Combo(svc.clear_buffer_trigger_key)
        /\ call.spawn = "dictation" => Pressed(call.event) = Combo(svc.dictation_trigger_key)
        /\ (/\ Pressed(call.event) = Combo(svc.trigger_key)
            /\ ~call.pending /\ ~call.selecting /\ ~call.suppress_events)
           => call.spawn = "trigger"

====
